---- MODULE Spec2Model ----
(***************************************************************************)
(* MRBot-Offline: the language-model core (tokenizer, trainer, generator)  *)
(* of js/neural-language-model-transformer.js and its recurrent variant    *)
(* js/neural-language-model.js, as a state machine.                        *)
(*                                                                         *)
(* JavaScript strings are TLA+ strings; a Map is a function whose DOMAIN   *)
(* is its key set; an insertion-ordered Map that the code iterates is a    *)
(* sequence of [k, v] records; `undefined` is the value Undefined (ids)    *)
(* or UndefinedToken (strings).                                            *)
(***************************************************************************)
EXTENDS Integers, Sequences, FiniteSets, TLC

VARIABLES
    variant,          \* which file's NeuralLanguageModel: "transformer" | "recurrent"
    tokenizer,        \* this.tokenizer: [word2idx, idx2word, subwords, vocabSize]
    tokOp,            \* the last tokenizer call and what it returned
    initialized,      \* this.initialized
    model,            \* this.model is set (createModel built one)
    trainingMetrics,  \* this.trainingMetrics
    storedTokenizer,  \* dataManager.modelData.tokenizer: <<>> (none) or <<tokenizerData>>
    now,              \* the clock new Date() reads: it advances with every call
    trainRun,         \* the last trainModel run: what it trained on and how it ended
    lastCall,         \* the last public call and what it returned
    trainingData,     \* dataManager.trainingData: [conversations, texts, feedback]
    conversationContext,  \* this.conversationContext: [history, currentTopic]
    dmInitialized,    \* dataManager.initialized
    generation,       \* the last generateResponse run: the path it took
    beams,            \* the beam search of generateResponse, step by step
    engine,           \* the NeuralConversationEngine: [initialized, history, language, ...]
    network,          \* the network createModel built: [weights, vocabularySize]
    exported,         \* the bundle the last exportModel('json') returned
    app               \* the NeuralAppIntegrator: its state and its pending handlers

tokVars == <<variant, tokenizer, tokOp>>
modelVars == <<initialized, model, trainingMetrics, storedTokenizer, now, trainRun,
               lastCall, trainingData, conversationContext, dmInitialized, generation,
               beams, engine, network, exported, app>>
vars == <<variant, tokenizer, tokOp, initialized, model, trainingMetrics, storedTokenizer,
          now, trainRun, lastCall, trainingData, conversationContext, dmInitialized,
          generation, beams, engine, network, exported, app>>

(***************************************************************************)
(* Bounds of the model                                                     *)
(***************************************************************************)
MaxCorpusLen == 2      \* texts in one fit() corpus
MaxSeqLen == 5         \* largest maxLength handed to encode (smallest is 4)
MaxExtras == 2         \* pairs that follow the block of beginner pairs in a training list
MaxCalls == 3          \* public calls made on one model

(***************************************************************************)
(* Program constants                                                       *)
(***************************************************************************)
MinSubwordLen == 2       \* for (let n = 2; ...
MaxSubwordLen == 4       \* ... n <= 4; n++)
SubwordLimit == 5000     \* .slice(0, 5000)
Undefined == -1          \* Map.prototype.get on a missing key, as an id
MinCurriculumSize == 10  \* if (curriculumData.length < 10)
AccuracyThreshold == 80  \* accuracy > 0.8, accuracies being counted in hundredths
GenerationThreshold == 100  \* if (this.trainingMetrics.totalExamples < 100)
NaN == -1                \* a non-finite loss or accuracy
NullTime == 0            \* lastTrainingTime: null
MaxHistory == 50         \* if (this.conversationContext.history.length > 50)

UndefinedToken == "<undefined>"   \* the same, where a token string is expected
PAD == "<PAD>"
UNK == "<UNK>"
START == "<START>"
END == "<END>"

(***************************************************************************)
(* Strings                                                                 *)
(***************************************************************************)
UpperLetters == "ABCDEFGHIJKLMNOPQRSTUVWXYZ"
LowerLetters == "abcdefghijklmnopqrstuvwxyz"

CharAt(s, i) == SubSeq(s, i, i)

\* String.prototype.substring(from, to), 0-based, to exclusive
substring(s, from, to) == SubSeq(s, from + 1, to)

LowerChar(c) ==
    IF \E i \in 1..Len(UpperLetters) : CharAt(UpperLetters, i) = c
    THEN CharAt(LowerLetters, CHOOSE i \in 1..Len(UpperLetters) : CharAt(UpperLetters, i) = c)
    ELSE c

RECURSIVE toLowerCase(_)
toLowerCase(s) ==
    IF Len(s) = 0 THEN ""
    ELSE LowerChar(CharAt(s, 1)) \o toLowerCase(SubSeq(s, 2, Len(s)))

IsSpace(c) == c = " "

RECURSIVE SkipSpaces(_, _)
SkipSpaces(s, i) ==
    IF i <= Len(s) /\ IsSpace(CharAt(s, i)) THEN SkipSpaces(s, i + 1) ELSE i

RECURSIVE SplitFrom(_, _, _, _)
SplitFrom(s, i, cur, acc) ==
    IF i > Len(s) THEN Append(acc, cur)
    ELSE IF IsSpace(CharAt(s, i))
         THEN SplitFrom(s, SkipSpaces(s, i), "", Append(acc, cur))
         ELSE SplitFrom(s, i + 1, cur \o CharAt(s, i), acc)

\* text.split(/\s+/)
split(s) == SplitFrom(s, 1, "", <<>>)

\* Array.prototype.join(' '): undefined elements render as the empty string
RECURSIVE join(_)
join(ws) ==
    IF Len(ws) = 0 THEN ""
    ELSE LET h == IF Head(ws) = UndefinedToken THEN "" ELSE Head(ws)
         IN  IF Len(ws) = 1 THEN h ELSE h \o " " \o join(Tail(ws))

(***************************************************************************)
(* Maps                                                                    *)
(***************************************************************************)
EmptyMap == <<>>
MapHas(m, k) == k \in DOMAIN m
MapGetId(m, k) == IF k \in DOMAIN m THEN m[k] ELSE Undefined
MapGetToken(m, k) == IF k \in DOMAIN m THEN m[k] ELSE UndefinedToken
MapSet(m, k, v) == [x \in (DOMAIN m) \cup {k} |-> IF x = k THEN v ELSE m[x]]
MapClear(m) == EmptyMap
MapSize(m) == Cardinality(DOMAIN m)

\* insertion-ordered Map<string, number> that the code iterates with entries()
OMHas(om, k) == \E i \in 1..Len(om) : om[i].k = k
OMGet(om, k) == IF OMHas(om, k) THEN om[CHOOSE i \in 1..Len(om) : om[i].k = k].v ELSE 0
OMSet(om, k, v) ==
    IF OMHas(om, k)
    THEN [i \in 1..Len(om) |-> IF om[i].k = k THEN [k |-> k, v |-> v] ELSE om[i]]
    ELSE Append(om, [k |-> k, v |-> v])

(***************************************************************************)
(* tokenizer.fit, sub-word variant (neural-language-model-transformer.js)  *)
(***************************************************************************)
FreshTokenizer ==
    [word2idx |-> EmptyMap, idx2word |-> EmptyMap, subwords |-> EmptyMap, vocabSize |-> 0]

\* "Reset vocabulary": the three clear() calls
fitNoReset(tok) == tok
fitReset(tok) ==
    [tok EXCEPT !.word2idx = MapClear(@), !.idx2word = MapClear(@), !.subwords = MapClear(@)]

\* "Add special tokens"
fitSpecial(tok) ==
    [tok EXCEPT
        !.word2idx = MapSet(MapSet(MapSet(MapSet(@, PAD, 0), UNK, 1), START, 2), END, 3),
        !.idx2word = MapSet(MapSet(MapSet(MapSet(@, 0, PAD), 1, UNK), 2, START), 3, END)]

\* "First pass: collect word frequencies"
RECURSIVE CountWords(_, _)
CountWords(words, wordFreq) ==
    IF Len(words) = 0 THEN wordFreq
    ELSE CountWords(Tail(words),
                    OMSet(wordFreq, Head(words), OMGet(wordFreq, Head(words)) + 1))

RECURSIVE WordFreq(_, _)
WordFreq(texts, wordFreq) ==
    IF Len(texts) = 0 THEN wordFreq
    ELSE WordFreq(Tail(texts), CountWords(split(toLowerCase(Head(texts))), wordFreq))

\* the n-grams of one length, left to right (empty when the word is shorter)
NGramsOfLen(word, n) ==
    [i \in 1..(Len(word) - n + 1) |-> substring(word, i - 1, i - 1 + n)]

RECURSIVE NGramsFrom(_, _)
NGramsFrom(word, n) ==
    IF n > MaxSubwordLen THEN <<>>
    ELSE NGramsOfLen(word, n) \o NGramsFrom(word, n + 1)

NGrams(word) == IF Len(word) <= 1 THEN <<>> ELSE NGramsFrom(word, MinSubwordLen)

RECURSIVE AddCandidates(_, _, _)
AddCandidates(cands, grams, freq) ==
    IF Len(grams) = 0 THEN cands
    ELSE AddCandidates(OMSet(cands, Head(grams), OMGet(cands, Head(grams)) + freq),
                       Tail(grams), freq)

\* "Second pass: extract common subwords"
RECURSIVE SubwordCandidates(_, _)
SubwordCandidates(wordFreq, cands) ==
    IF Len(wordFreq) = 0 THEN cands
    ELSE SubwordCandidates(Tail(wordFreq),
                           AddCandidates(cands, NGrams(Head(wordFreq).k), Head(wordFreq).v))

\* Array.prototype.sort((a, b) => b[1] - a[1]): stable, descending by count
InsertByCount(sorted, e) ==
    LET n == Cardinality({i \in 1..Len(sorted) : sorted[i].v >= e.v})
    IN  SubSeq(sorted, 1, n) \o <<e>> \o SubSeq(sorted, n + 1, Len(sorted))

RECURSIVE SortByCountDesc(_, _)
SortByCountDesc(entries, sorted) ==
    IF Len(entries) = 0 THEN sorted
    ELSE SortByCountDesc(Tail(entries), InsertByCount(sorted, Head(entries)))

\* .slice(0, 5000)
SortedSubwords(cands) ==
    LET s == SortByCountDesc(cands, <<>>)
    IN  SubSeq(s, 1, IF Len(s) < SubwordLimit THEN Len(s) ELSE SubwordLimit)

\* "Add subwords to vocabulary": st = [tok, idx]
AddSubword(st, subword) ==
    [tok |-> [st.tok EXCEPT !.word2idx = MapSet(@, subword, st.idx),
                            !.idx2word = MapSet(@, st.idx, subword),
                            !.subwords = MapSet(@, subword, st.idx)],
     idx |-> st.idx + 1]

RECURSIVE AddSubwords(_, _)
AddSubwords(st, sortedSubwords) ==
    IF Len(sortedSubwords) = 0 THEN st
    ELSE AddSubwords(AddSubword(st, Head(sortedSubwords).k), Tail(sortedSubwords))

\* "Add whole words that weren't broken into subwords"
AddWordUnchecked(st, word) ==
    [tok |-> [st.tok EXCEPT !.word2idx = MapSet(@, word, st.idx),
                            !.idx2word = MapSet(@, st.idx, word)],
     idx |-> st.idx + 1]

AddWord(st, word) ==
    IF ~MapHas(st.tok.word2idx, word)
    THEN [tok |-> [st.tok EXCEPT !.word2idx = MapSet(@, word, st.idx),
                                 !.idx2word = MapSet(@, st.idx, word)],
          idx |-> st.idx + 1]
    ELSE st

RECURSIVE AddWholeWords(_, _)
AddWholeWords(st, wordFreq) ==
    IF Len(wordFreq) = 0 THEN st
    ELSE AddWholeWords(AddWord(st, Head(wordFreq).k), Tail(wordFreq))

fit(tok, texts) ==
    LET wordFreq == WordFreq(texts, <<>>)
        sortedSubwords == SortedSubwords(SubwordCandidates(wordFreq, <<>>))
        st0 == [tok |-> fitSpecial(fitReset(tok)), idx |-> 4]
        st1 == AddSubwords(st0, sortedSubwords)
        st2 == AddWholeWords(st1, wordFreq)
    IN  [st2.tok EXCEPT !.vocabSize = MapSize(st2.tok.word2idx)]

(***************************************************************************)
(* tokenizer.fit, word-level variant (neural-language-model.js)            *)
(***************************************************************************)
RECURSIVE AddWords(_, _)
AddWords(st, words) ==
    IF Len(words) = 0 THEN st
    ELSE AddWords(AddWord(st, Head(words)), Tail(words))

RECURSIVE AddTexts(_, _)
AddTexts(st, texts) ==
    IF Len(texts) = 0 THEN st
    ELSE AddTexts(AddWords(st, split(toLowerCase(Head(texts)))), Tail(texts))

fitBasic(tok, texts) ==
    LET st0 == [tok |-> fitSpecial([tok EXCEPT !.word2idx = MapClear(@),
                                               !.idx2word = MapClear(@)]),
                idx |-> 4]
        st1 == AddTexts(st0, texts)
    IN  [st1.tok EXCEPT !.vocabSize = MapSize(st1.tok.word2idx)]

(***************************************************************************)
(* tokenizer.encode / decode, sub-word variant                             *)
(***************************************************************************)
\* the lengths len (min(4, word.length - i) down to 2) whose subword is known
MatchLens(tok, word, i) ==
    {len \in MinSubwordLen..MaxSubwordLen :
        /\ len <= Len(word) - i
        /\ MapHas(tok.subwords, substring(word, i, i + len))}

MaxOf(S) == CHOOSE x \in S : \A y \in S : y <= x

\* "If word not found, break it into subwords": the for (i ...) loop and the
\* closing "if (!wordEncoded)"
RECURSIVE MatchSubwords(_, _, _, _, _)
MatchSubwords(tok, word, i, out, wordEncoded) ==
    IF i >= Len(word)
    THEN IF ~wordEncoded THEN Append(out, MapGetId(tok.word2idx, UNK)) ELSE out
    ELSE IF MatchLens(tok, word, i) # {}
         THEN LET len == MaxOf(MatchLens(tok, word, i))
              IN  MatchSubwords(tok, word, i + len,
                      Append(out, MapGetId(tok.subwords, substring(word, i, i + len))), TRUE)
         ELSE MatchSubwords(tok, word, i + 1,
                      Append(out, MapGetId(tok.word2idx, UNK)), wordEncoded)

\* the ids one word pushes onto result
EncodeWord(tok, word) ==
    IF MapHas(tok.word2idx, word)
    THEN <<MapGetId(tok.word2idx, word)>>
    ELSE MatchSubwords(tok, word, 0, <<>>, FALSE)

\* for (const word of words) { ...; if (result.length >= maxLength - 1) break; }
RECURSIVE EncodeWords(_, _, _, _)
EncodeWords(tok, words, result, maxLength) ==
    IF Len(words) = 0 THEN result
    ELSE LET r == result \o EncodeWord(tok, Head(words))
         IN  IF Len(r) >= maxLength - 1 THEN r
             ELSE EncodeWords(tok, Tail(words), r, maxLength)

\* while (result.length < maxLength) result.push(PAD)
RECURSIVE PadTo(_, _, _)
PadTo(result, maxLength, pad) ==
    IF Len(result) < maxLength THEN PadTo(Append(result, pad), maxLength, pad) ELSE result

encode(tok, text, maxLength) ==
    LET words == split(toLowerCase(text))
        r == EncodeWords(tok, words, <<MapGetId(tok.word2idx, START)>>, maxLength)
    IN  PadTo(Append(r, MapGetId(tok.word2idx, END)), maxLength, MapGetId(tok.word2idx, PAD))

\* push of the accumulated sub-word run, when there is one
Flush(result, currentWord) ==
    IF Len(currentWord) > 0 THEN Append(result, currentWord) ELSE result

RECURSIVE DecodeLoop(_, _, _, _)
DecodeLoop(tok, sequence, result, currentWord) ==
    IF Len(sequence) = 0 THEN Flush(result, currentWord)
    ELSE LET idx == Head(sequence)
             token == MapGetToken(tok.idx2word, idx)
         IN  IF idx = MapGetId(tok.word2idx, PAD) \/ idx = MapGetId(tok.word2idx, START)
             THEN DecodeLoop(tok, Tail(sequence), result, currentWord)
             ELSE IF idx = MapGetId(tok.word2idx, END)
             THEN Flush(result, currentWord)
             ELSE IF MapHas(tok.subwords, token)
             THEN DecodeLoop(tok, Tail(sequence), result, currentWord \o token)
             ELSE DecodeLoop(tok, Tail(sequence),
                             Append(Flush(result, currentWord),
                                    IF token # UNK THEN token ELSE "?"),
                             "")

decode(tok, sequence) == join(DecodeLoop(tok, sequence, <<>>, ""))

(***************************************************************************)
(* tokenizer.encode / decode, word-level variant                           *)
(***************************************************************************)
RECURSIVE EncodeWordsBasic(_, _, _, _)
EncodeWordsBasic(tok, words, result, maxLength) ==
    IF Len(words) = 0 THEN result
    ELSE LET idx == IF MapHas(tok.word2idx, Head(words))
                    THEN MapGetId(tok.word2idx, Head(words))
                    ELSE MapGetId(tok.word2idx, UNK)
             r == Append(result, idx)
         IN  IF Len(r) >= maxLength - 1 THEN r
             ELSE EncodeWordsBasic(tok, Tail(words), r, maxLength)

encodeBasic(tok, text, maxLength) ==
    LET words == split(toLowerCase(text))
        r == EncodeWordsBasic(tok, words, <<MapGetId(tok.word2idx, START)>>, maxLength)
    IN  PadTo(Append(r, MapGetId(tok.word2idx, END)), maxLength, MapGetId(tok.word2idx, PAD))

RECURSIVE DecodeLoopBasic(_, _, _)
DecodeLoopBasic(tok, sequence, result) ==
    IF Len(sequence) = 0 THEN result
    ELSE LET idx == Head(sequence)
         IN  IF idx = MapGetId(tok.word2idx, PAD) \/ idx = MapGetId(tok.word2idx, START)
             THEN DecodeLoopBasic(tok, Tail(sequence), result)
             ELSE IF idx = MapGetId(tok.word2idx, END)
             THEN result
             ELSE DecodeLoopBasic(tok, Tail(sequence),
                                  Append(result, MapGetToken(tok.idx2word, idx)))

decodeBasic(tok, sequence) == join(DecodeLoopBasic(tok, sequence, <<>>))

(***************************************************************************)
(* The tokenizer as a state machine: fit, encode and decode in any order   *)
(***************************************************************************)
Variants == {"transformer", "recurrent"}

SeqsUpTo(S, n) == UNION {[1..k -> S] : k \in 0..n}

CorpusTexts == {"hi", "Hello hi", "a ab"}
Corpora == SeqsUpTo(CorpusTexts, MaxCorpusLen)
EncodeTexts == {"hi hi", "Hello", "hi hello", "a hi", "xyz", "hexlo there"}
MaxLengths == 4..MaxSeqLen
DecodeSeqs == {<<2, 4, 3>>, <<2, 5, 1, 4, 3, 0>>}

NoTokOp ==
    [op |-> "none", texts |-> <<>>, text |-> "", maxLength |-> 0, seq |-> <<>>,
     str |-> "", outcome |-> "none", priorSize |-> 0, chained |-> FALSE]

\* tokenizer.fit(texts)
Fit(texts) ==
    /\ tokenizer' = IF variant = "transformer" THEN fit(tokenizer, texts)
                    ELSE fitBasic(tokenizer, texts)
    /\ tokOp' = [NoTokOp EXCEPT !.op = "fit", !.texts = texts, !.outcome = "returned",
                                !.priorSize = MapSize(tokenizer.word2idx)]
    /\ UNCHANGED <<variant, modelVars>>

\* tokenizer.encode(text, maxLength): no path of the code throws or rejects
Encode(text, maxLength) ==
    /\ tokOp' = [NoTokOp EXCEPT !.op = "encode", !.text = text, !.maxLength = maxLength,
                    !.seq = IF variant = "transformer"
                            THEN encode(tokenizer, text, maxLength)
                            ELSE encodeBasic(tokenizer, text, maxLength),
                    !.outcome = "returned",
                    !.priorSize = MapSize(tokenizer.word2idx)]
    /\ UNCHANGED <<variant, tokenizer, modelVars>>

\* tokenizer.decode(sequence)
DecodeSeq(sequence, text, maxLength, chained) ==
    /\ tokOp' = [NoTokOp EXCEPT !.op = "decode", !.text = text, !.maxLength = maxLength,
                    !.seq = sequence,
                    !.str = IF variant = "transformer"
                            THEN decode(tokenizer, sequence)
                            ELSE decodeBasic(tokenizer, sequence),
                    !.outcome = "returned",
                    !.priorSize = MapSize(tokenizer.word2idx),
                    !.chained = chained]
    /\ UNCHANGED <<variant, tokenizer, modelVars>>

\* decode(encode(text, maxLength)): decode applied to what encode just returned
DecodeEncoded ==
    /\ tokOp.op = "encode"
    /\ DecodeSeq(tokOp.seq, tokOp.text, tokOp.maxLength, TRUE)

Decode(sequence) == DecodeSeq(sequence, "", 0, FALSE)

(***************************************************************************)
(* trainModel: curriculum selection and training metrics                   *)
(***************************************************************************)
levels == <<"beginner", "elementary", "intermediate", "advanced", "expert">>
difficultyOrder ==
    [beginner |-> 0, elementary |-> 1, intermediate |-> 2, advanced |-> 3, expert |-> 4]

\* a pair [input, output] without metadata, or whose metadata has no difficulty
NoDifficulty == "none"
Pair(input, output, difficulty) ==
    [input |-> input, output |-> output, difficulty |-> difficulty]

\* difficultyOrder[x] || 0
OrderOf(d) == IF d \in DOMAIN difficultyOrder THEN difficultyOrder[d] ELSE 0

\* conversationData.some(pair => pair.length > 2 && pair[2] && typeof ... === 'string')
hasDifficultyMetadata(data) == \E i \in 1..Len(data) : data[i].difficulty # NoDifficulty

\* metadata && metadata.difficulty ? metadata.difficulty : 'beginner', then its order
difficultyValue(pair) ==
    OrderOf(IF pair.difficulty # NoDifficulty THEN pair.difficulty ELSE "beginner")

\* difficultyOrder[this.trainingMetrics.progressLevel || 'beginner'] || 0
currentLevelValue(metrics) == OrderOf(metrics.progressLevel)

\* the filter's predicate with its first comparison turned round
IncludedAtOrAbove(pair, level, lucky) ==
    \/ difficultyValue(pair) >= level
    \/ (difficultyValue(pair) = level + 1 /\ lucky)
    \/ (difficultyValue(pair) = level + 2 /\ lucky)

\* the filter's predicate taking the level above without a draw
IncludedOneAbove(pair, level, lucky) ==
    \/ difficultyValue(pair) <= level + 1
    \/ (difficultyValue(pair) = level + 2 /\ lucky)

\* the filter's predicate; lucky: the Math.random() draw fell below the probability
Included(pair, level, lucky) ==
    \/ difficultyValue(pair) <= level
    \/ (difficultyValue(pair) = level + 1 /\ lucky)
    \/ (difficultyValue(pair) = level + 2 /\ lucky)

\* the positions whose inclusion a random draw decides
DrawCandidates(data, level) ==
    {i \in 1..Len(data) : difficultyValue(data[i]) \in {level + 1, level + 2}}

\* conversationData.filter(...), as the set of positions kept
CurriculumFilter(data, level, luckySet) ==
    {i \in 1..Len(data) : Included(data[i], level, i \in luckySet)}

\* curriculumData, as positions of conversationData: everything when no pair has a
\* difficulty, the filter's result otherwise, everything again when it kept under 10
CurriculumData(data, level, luckySet) ==
    IF hasDifficultyMetadata(data)
    THEN IF Cardinality(CurriculumFilter(data, level, luckySet)) < MinCurriculumSize
         THEN 1..Len(data)
         ELSE CurriculumFilter(data, level, luckySet)
    ELSE 1..Len(data)

\* what the run trains on: the recurrent variant has no curriculum
TrainedOn(data, metrics, luckySet) ==
    IF variant = "transformer"
    THEN CurriculumData(data, currentLevelValue(metrics), luckySet)
    ELSE 1..Len(data)

\* levels.indexOf(x)
IndexOf(seq, x) ==
    IF \E i \in 1..Len(seq) : seq[i] = x
    THEN (CHOOSE i \in 1..Len(seq) : seq[i] = x) - 1
    ELSE -1

\* the curriculum progress without the currentIndex < levels.length - 1 test
NextLevelWrapping(metrics) ==
    IF metrics.accuracy > AccuracyThreshold
    THEN levels[((IndexOf(levels, metrics.progressLevel) + 1) % Len(levels)) + 1]
    ELSE metrics.progressLevel

\* "Update curriculum progress if accuracy is high enough"
NextLevel(metrics) ==
    IF /\ metrics.accuracy > AccuracyThreshold
       /\ IndexOf(levels, metrics.progressLevel) < Len(levels) - 1
    THEN levels[IndexOf(levels, metrics.progressLevel) + 2]
    ELSE metrics.progressLevel

\* totalExamples += conversationData.length where there is a curriculum
ExampleCountOfInput(data, trained) == Len(data)
\* totalExamples += curriculumData.length (conversationData.length in the recurrent
\* variant, which trains on all of it)
ExampleCount(data, trained) == Cardinality(trained)

\* "Update training metrics": the three statements before history.history is read
CountedMetrics(metrics, data, trained, time) ==
    [metrics EXCEPT !.totalTrainingSessions = @ + 1,
                    !.totalExamples = @ + ExampleCount(data, trained),
                    !.lastTrainingTime = time]

\* ... then the last epoch's accuracy and loss, then the curriculum progress
\* (transformer variant)
UpdatedMetrics(metrics, data, trained, history, time) ==
    LET m == [CountedMetrics(metrics, data, trained, time)
                  EXCEPT !.accuracy = history.accuracy, !.loss = history.loss]
    IN  IF variant = "transformer" THEN [m EXCEPT !.progressLevel = NextLevel(m)] ELSE m

\* the constructor's trainingMetrics: only the transformer variant tracks progressLevel
InitialMetrics ==
    IF variant = "transformer"
    THEN [totalTrainingSessions |-> 0, totalExamples |-> 0, lastTrainingTime |-> NullTime,
          accuracy |-> 0, loss |-> 0, progressLevel |-> "beginner"]
    ELSE [totalTrainingSessions |-> 0, totalExamples |-> 0, lastTrainingTime |-> NullTime,
          accuracy |-> 0, loss |-> 0]

\* what tf.tensor2d / tf.oneHot and model.fit can do: the tensor calls throw (outside
\* the try), model.fit rejects, it resolves with a History that has no accuracy series
\* (history.history.accuracy[...] then throws inside the try), or it resolves with the
\* last epoch's accuracy and loss
FitOutcomes ==
    { [kind |-> "tensorThrows", accuracy |-> 0, loss |-> 0],
      [kind |-> "fitThrows", accuracy |-> 0, loss |-> 0],
      [kind |-> "noAccuracySeries", accuracy |-> 0, loss |-> 0],
      [kind |-> "resolved", accuracy |-> 80, loss |-> 1],
      [kind |-> "resolved", accuracy |-> 81, loss |-> 1],
      [kind |-> "resolved", accuracy |-> 50, loss |-> NaN] }

NoHistory == [kind |-> "none", accuracy |-> 0, loss |-> 0]

NoTrainRun ==
    [outcome |-> "none", history |-> NoHistory, data |-> <<>>, level |-> "none", filtered |-> {},
     lucky |-> {}, trained |-> {}, returned |-> "none", saved |-> FALSE,
     caller |-> "none", time |-> NullTime]

\* saveModel: the tokenizer tables go to dataManager.saveTokenizerData
TokenizerData(tok) == tok

\* the filter's result where trainModel filters, the whole list where it does not
FilteredBy(data, metrics, luckySet) ==
    IF variant = "transformer" /\ hasDifficultyMetadata(data)
    THEN CurriculumFilter(data, currentLevelValue(metrics), luckySet)
    ELSE 1..Len(data)

\* dataManager.saveTokenizerData(tokenizerData): returns false, storing nothing, when
\* the manager is not initialized; saveModel ignores what it returns
saveTokenizerData(stored, tokenizerData) ==
    IF dmInitialized THEN <<tokenizerData>> ELSE stored

\* trainModel(data) as called by `caller`: sets trainingMetrics, storedTokenizer, trainRun
trainModel(data, luckySet, fitOutcome, caller) ==
    \E filtered \in {FilteredBy(data, trainingMetrics, luckySet)},
       trained \in {TrainedOn(data, trainingMetrics, luckySet)} :
      LET run == [NoTrainRun EXCEPT !.data = data, !.caller = caller, !.lucky = luckySet,
                                    !.time = now + 1,
                                    !.level = IF variant = "transformer"
                                              THEN trainingMetrics.progressLevel ELSE "none"]
          ran == [run EXCEPT !.filtered = filtered, !.trained = trained,
                             !.history = fitOutcome]
      IN  IF ~initialized \/ ~model
          THEN /\ trainRun' = [run EXCEPT !.outcome = "notInitialized", !.returned = "false"]
               /\ UNCHANGED <<trainingMetrics, storedTokenizer>>
          ELSE IF fitOutcome.kind = "tensorThrows"
          THEN /\ trainRun' = [ran EXCEPT !.outcome = "tensorThrows", !.returned = "throws"]
               /\ UNCHANGED <<trainingMetrics, storedTokenizer>>
          ELSE IF fitOutcome.kind = "fitThrows"
          THEN /\ trainRun' = [ran EXCEPT !.outcome = "fitThrows", !.returned = "false"]
               /\ UNCHANGED <<trainingMetrics, storedTokenizer>>
          ELSE IF fitOutcome.kind = "noAccuracySeries"
          THEN /\ trainingMetrics' = CountedMetrics(trainingMetrics, data, trained, now + 1)
               /\ trainRun' = [ran EXCEPT !.outcome = "noAccuracySeries",
                                          !.returned = "false"]
               /\ UNCHANGED storedTokenizer
          ELSE /\ trainingMetrics' =
                      UpdatedMetrics(trainingMetrics, data, trained, fitOutcome, now + 1)
               /\ storedTokenizer' = saveTokenizerData(storedTokenizer,
                                                        TokenizerData(tokenizer))
               /\ trainRun' = [ran EXCEPT !.outcome = "completed", !.returned = "true",
                                          !.saved = dmInitialized]

\* tf.tensor2d([]) of an empty list throws; otherwise anything in FitOutcomes
OutcomesFor(data, luckySet) ==
    IF TrainedOn(data, trainingMetrics, luckySet) = {}
    THEN {o \in FitOutcomes : o.kind = "tensorThrows"}
    ELSE FitOutcomes

(***************************************************************************)
(* learnFromText, the data manager, generateResponse                       *)
(***************************************************************************)
\* String.prototype.includes
Includes(s, sub) ==
    \E i \in 1..(Len(s) - Len(sub) + 1) : SubSeq(s, i, i + Len(sub) - 1) = sub

\* String.prototype.trim
RECURSIVE trimStart(_)
trimStart(s) ==
    IF Len(s) > 0 /\ IsSpace(CharAt(s, 1)) THEN trimStart(SubSeq(s, 2, Len(s))) ELSE s

RECURSIVE trimEnd(_)
trimEnd(s) ==
    IF Len(s) > 0 /\ IsSpace(CharAt(s, Len(s))) THEN trimEnd(SubSeq(s, 1, Len(s) - 1)) ELSE s

trim(s) == trimEnd(trimStart(s))

IsTerminator(c) == c \in {".", "!", "?"}

RECURSIVE SkipTerminators(_, _)
SkipTerminators(s, i) ==
    IF i <= Len(s) /\ IsTerminator(CharAt(s, i)) THEN SkipTerminators(s, i + 1) ELSE i

\* text.split(/[.!?]+/)
RECURSIVE SplitSentencesFrom(_, _, _, _)
SplitSentencesFrom(s, i, cur, acc) ==
    IF i > Len(s) THEN Append(acc, cur)
    ELSE IF IsTerminator(CharAt(s, i))
         THEN SplitSentencesFrom(s, SkipTerminators(s, i), "", Append(acc, cur))
         ELSE SplitSentencesFrom(s, i + 1, cur \o CharAt(s, i), acc)

\* text.split(/[.!?]+/).filter(s => s.trim().length > 0)
Sentences(text) ==
    SelectSeq(SplitSentencesFrom(text, 1, "", <<>>), LAMBDA x : Len(trim(x)) > 0)

\* "Create training pairs (each sentence with the next one)"
TrainingPairs(sentences, difficulty) ==
    [i \in 1..(Len(sentences) - 1) |->
        Pair(trim(sentences[i]), trim(sentences[i + 1]), difficulty)]

\* metadata.difficulty || 'beginner'
DifficultyOr(difficulty, default) == IF difficulty = NoDifficulty THEN default ELSE difficulty

EmptyTrainingData == [conversations |-> <<>>, texts |-> <<>>, feedback |-> <<>>]

\* dataManager.addTrainingText(text, language, metadata)
addTrainingText(data, text, language, difficulty, time) ==
    IF Len(text) = 0 \/ Len(language) = 0 \/ Len(trim(text)) = 0
    THEN data
    ELSE [data EXCEPT !.texts = Append(@, [language |-> language, content |-> text,
                                            timestamp |-> time,
                                            difficulty |-> DifficultyOr(difficulty, "beginner")])]

\* dataManager.addFeedback(userInput, botResponse, correctResponse)
addFeedback(data, userInput, botResponse, correctResponse, time) ==
    [data EXCEPT !.feedback = Append(@, [input |-> userInput, botResponse |-> botResponse,
                                          correctResponse |-> correctResponse,
                                          timestamp |-> time,
                                          difficulty |-> "beginner"])]

RECURSIVE FlattenConversations(_)
FlattenConversations(convs) ==
    IF convs = <<>> THEN <<>>
    ELSE <<Head(convs).input, Head(convs).response>> \o FlattenConversations(Tail(convs))

RECURSIVE FlattenTexts(_)
FlattenTexts(texts) ==
    IF texts = <<>> THEN <<>>
    ELSE LET sentences == Sentences(Head(texts).content)
         IN  [i \in 1..Len(sentences) |-> trim(sentences[i])] \o FlattenTexts(Tail(texts))

RECURSIVE FlattenFeedback(_)
FlattenFeedback(feedback) ==
    IF feedback = <<>> THEN <<>>
    ELSE <<Head(feedback).input, Head(feedback).correctResponse>>
             \o FlattenFeedback(Tail(feedback))

supportedLanguages == <<"en", "bn", "hi", "es", "fr", "de", "ja", "zh", "ru", "ar">>

\* for (const lang in this.trainingData.texts): the per-language arrays, in key order
RECURSIVE TextsByLanguage(_, _)
TextsByLanguage(texts, langs) ==
    IF langs = <<>> THEN <<>>
    ELSE SelectSeq(texts, LAMBDA t : t.language = Head(langs))
             \o TextsByLanguage(texts, Tail(langs))

\* dataManager.getTrainingData()
getTrainingData(data) ==
    FlattenConversations(data.conversations)
        \o FlattenTexts(TextsByLanguage(data.texts, supportedLanguages))
        \o FlattenFeedback(data.feedback)

\* updateConversationContext(userInput, botResponse)
topicKeywords ==
    << [topic |-> "greeting",
        keywords |-> <<"hello", "hi", "hey", "morning", "afternoon", "evening">>],
       [topic |-> "farewell",
        keywords |-> <<"goodbye", "bye", "see you", "later", "take care">>],
       [topic |-> "vocabulary",
        keywords |-> <<"word", "vocabulary", "mean", "definition", "translate">>],
       [topic |-> "grammar",
        keywords |-> <<"grammar", "sentence", "structure", "tense", "conjugate">>],
       [topic |-> "conversation",
        keywords |-> <<"talk", "speak", "conversation", "practice", "dialogue">>] >>

NullTopic == "null"

SomeKeyword(input, keywords) ==
    \E k \in 1..Len(keywords) : Includes(input, keywords[k])

DetectTopic(input, current) ==
    IF \E t \in 1..Len(topicKeywords) : SomeKeyword(input, topicKeywords[t].keywords)
    THEN topicKeywords[CHOOSE t \in 1..Len(topicKeywords) :
                          /\ SomeKeyword(input, topicKeywords[t].keywords)
                          /\ \A u \in 1..(t - 1) :
                                 ~SomeKeyword(input, topicKeywords[u].keywords)].topic
    ELSE current

LimitHistoryFromTheEnd(history) ==
    IF Len(history) > MaxHistory THEN SubSeq(history, 1, MaxHistory) ELSE history

\* "Limit history size": if (history.length > 50) history.shift()
LimitHistory(history) ==
    IF Len(history) > MaxHistory THEN Tail(history) ELSE history

updateConversationContext(context, userInput, botResponse, time) ==
    LET pushed == Append(context.history,
                         [user |-> userInput, bot |-> botResponse, timestamp |-> time])
    IN  [history |-> LimitHistory(pushed),
         currentTopic |-> DetectTopic(toLowerCase(userInput), context.currentTopic)]

InitialContext == [history |-> <<>>, currentTopic |-> NullTopic]

defaultResponses ==
    << "I'm still learning from our conversations. Could you tell me more?",
       "That's interesting! As we talk more, I'll get better at responding.",
       "I'm processing what you said. My neural network is learning from this interaction!",
       "Thanks for chatting with me. Each conversation helps me learn and improve.",
       "I'm designed to learn from our conversations. Please continue, and I'll get better over time." >>

StillInitializing == "I'm still initializing. Please try again in a moment."

\* generateFallbackResponse(userInput); `pick` is the Math.random() index into
\* defaultResponses
MatchesAny(input, alternatives) == \E a \in alternatives : Includes(input, a)

generateFallbackResponse(userInput, pick) ==
    LET input == toLowerCase(userInput)
    IN  IF MatchesAny(input, {"hello", "hi", "hey", "good morning", "good afternoon",
                              "good evening", "how are you"})
        THEN "Hello! I'm still learning, but I'm happy to chat with you. How can I help with your language learning today?"
        ELSE IF MatchesAny(input, {"goodbye", "bye", "see you", "take care"})
        THEN "Goodbye! Thanks for chatting with me. I'm learning from our conversation!"
        ELSE IF MatchesAny(input, {"who are you", "what are you", "tell me about yourself"})
        THEN "I'm MR Bot, a self-learning language teaching assistant. I'm designed to learn from our conversations to help you better!"
        ELSE IF MatchesAny(input, {"teach", "learn", "language", "word", "grammar",
                                   "vocabulary", "speak", "write"})
        THEN "I'd be happy to help you learn languages! As we talk more, I'll get better at teaching you. What specific language would you like to practice?"
        ELSE defaultResponses[pick]

(***************************************************************************)
(* The model's calls                                                       *)
(***************************************************************************)
Rep(n, x) == [i \in 1..n |-> x]

\* the lists handed to trainModel: a block of beginner pairs (none, one short of the
\* curriculum's minimum, or exactly the minimum) followed by pairs of any difficulty,
\* tagged or not
Tags == {NoDifficulty} \cup {levels[i] : i \in 1..Len(levels)}
TagRank(t) == IF t = NoDifficulty THEN -1 ELSE OrderOf(t)
ExtraLists ==
    {e \in SeqsUpTo(Tags, MaxExtras) :
        \A i \in 1..(Len(e) - 1) : TagRank(e[i]) <= TagRank(e[i + 1])}
BlockSizes == {0, MinCurriculumSize - 1, MinCurriculumSize}
TrainingLists ==
    {Rep(n, Pair("hi", "hello", "beginner")) \o [i \in 1..Len(e) |-> Pair("hi", "hello", e[i])] :
        n \in BlockSizes, e \in ExtraLists}

\* the lists the callers of one model hand to trainModel: nothing, a list the
\* curriculum thins out, and one long enough to pass generateResponse's threshold
CallerLists ==
    { <<>>,
      Rep(MinCurriculumSize, Pair("hi", "hello", "beginner"))
          \o <<Pair("hi", "hello", "elementary"), Pair("hi", "hello", "expert")>> }

\* this.tokenizer = null, until initializeTokenizer builds the object
NullTokenizer == [FreshTokenizer EXCEPT !.vocabSize = Undefined]

\* what exportModel('json') returned for a model trained up to the last level, and
\* import data without a model
TrainedBundle ==
    [model |-> TRUE,
     tokenizer |-> IF variant = "transformer" THEN fit(FreshTokenizer, <<"hi">>)
                   ELSE fitBasic(FreshTokenizer, <<"hi">>),
     trainingMetrics |->
         IF variant = "transformer"
         THEN [InitialMetrics EXCEPT !.totalTrainingSessions = Len(levels),
                                     !.totalExamples = GenerationThreshold,
                                     !.lastTrainingTime = now + 1,
                                     !.accuracy = AccuracyThreshold + 1,
                                     !.progressLevel = levels[Len(levels)]]
         ELSE [InitialMetrics EXCEPT !.totalTrainingSessions = Len(levels),
                                     !.totalExamples = GenerationThreshold,
                                     !.lastTrainingTime = now + 1,
                                     !.accuracy = AccuracyThreshold + 1]]
InvalidBundle == [TrainedBundle EXCEPT !.model = FALSE]
ImportData == {TrainedBundle, InvalidBundle}

InitializeOutcomes == {"created", "tfMissing", "createThrows"}
LearnTexts == {"Hi", "Hi. Hello there!", "a. b? c"}
LearnDifficulties == {NoDifficulty, "expert"}
\* learnFromText(text, language) of the recurrent variant takes no metadata
LearnDifficultiesOf(v) == IF v = "transformer" THEN LearnDifficulties ELSE {NoDifficulty}
UserInputs == {"Hello", "teach me", "xyz"}

Call(op, returned) == [op |-> op, returned |-> returned]

\* this.model = null
NoNetwork == [weights |-> Undefined, vocabularySize |-> Undefined]

\* this.parameters.vocabularySize
vocabularySize == 10000

\* createModel(): without tf it returns false and when it throws nothing is assigned;
\* otherwise this.model is a new network, with freshly initialized weights (numbered by
\* the createModel call that drew them), whose embedding input size and output width
\* are parameters.vocabularySize
createModel(outcome) ==
    IF outcome = "created"
    THEN [weights |-> IF network = NoNetwork THEN 1 ELSE network.weights + 1,
          vocabularySize |-> vocabularySize]
    ELSE network

\* no bundle exported yet
NoBundle == [made |-> FALSE, tokenizer |-> NullTokenizer, trainingMetrics |-> InitialMetrics,
             metricsAtExport |-> InitialMetrics, aliased |-> FALSE, weights |-> Undefined,
             exportDate |-> NullTime]

\* the trainingMetrics object the bundle holds: exportData.trainingMetrics is
\* this.trainingMetrics itself, not a copy, until importModel assigns a new object to
\* this.trainingMetrics
BundleMetrics == IF exported.aliased THEN trainingMetrics ELSE exported.trainingMetrics

\* the application before NeuralAppIntegrator.initialize
NoApp ==
    [initialized |-> FALSE, isProcessing |-> FALSE, sendDisabled |-> FALSE,
     feedbackUI |-> "hidden", lastBotResponse |-> "", pending |-> <<>>, messages |-> 0,
     events |-> 0, last |-> [handler |-> "none", effect |-> "none"]]

\* no generateResponse run yet
NoGeneration == [path |-> "none", predicted |-> FALSE, best |-> <<>>, input |-> "",
                 responseText |-> "", returned |-> "", time |-> NullTime]

\* no beam search under way
NoBeams == [phase |-> "idle", step |-> 0, beams |-> <<>>, maxLength |-> 0,
            candidates |-> <<>>, beam |-> 0, steps |-> 0, input |-> ""]

\* the engine after its constructor
NoEngine == [initialized |-> FALSE, hasLanguageModel |-> FALSE, history |-> <<>>,
             language |-> "en", currentMode |-> "conversation",
             feedback |-> [botResponse |-> "", correction |-> "", recorded |-> "none"]]

\* the state the language model does not touch
exportVars == <<network, exported, app>>
restVars == <<beams, engine, exportVars>>

\* a dataManager method that returns early when the manager is not initialized
WhenInitialized(changed, unchanged) == IF dmInitialized THEN changed ELSE unchanged

Init ==
    /\ variant \in Variants
    /\ tokenizer = NullTokenizer
    /\ tokOp = NoTokOp
    /\ initialized = FALSE
    /\ model = FALSE
    /\ trainingMetrics = InitialMetrics
    /\ storedTokenizer = <<>>
    /\ now = 0
    /\ trainRun = NoTrainRun
    /\ lastCall = Call("none", "none")
    /\ trainingData = EmptyTrainingData
    /\ conversationContext = InitialContext
    /\ dmInitialized = FALSE
    /\ generation = NoGeneration
    /\ beams = NoBeams
    /\ engine = NoEngine
    /\ network = NoNetwork
    /\ exported = NoBundle
    /\ app = NoApp

\* initialize(dataManager): initializeTokenizer fits on the stored texts, loadModel
\* restores a saved tokenizer over it, createModel builds the network (or finds no tf,
\* or throws, and then initialize rejects before setting this.initialized)
Initialize(outcome) ==
    LET texts == WhenInitialized(getTrainingData(trainingData), <<>>)
        fitted == IF Len(texts) = 0 THEN FreshTokenizer
                  ELSE IF variant = "transformer" THEN fit(FreshTokenizer, texts)
                  ELSE fitBasic(FreshTokenizer, texts)
    IN  /\ now' = now + 1
        /\ tokenizer' = IF storedTokenizer # <<>> THEN storedTokenizer[1] ELSE fitted
        /\ model' = (model \/ outcome = "created")
        /\ network' = createModel(outcome)
        /\ initialized' = (initialized \/ outcome # "createThrows")
        /\ lastCall' = Call("initialize", IF outcome = "createThrows" THEN "throws" ELSE "true")
        /\ UNCHANGED <<variant, tokOp, trainingMetrics, storedTokenizer, trainRun,
                       trainingData, conversationContext, dmInitialized, generation,
                       beams, engine, exported, app>>

\* trainModel(conversationData), called directly
TrainModel(conversationData, luckySet, fitOutcome) ==
    /\ now' = now + 1
    /\ trainModel(conversationData, luckySet, fitOutcome, "trainModel")
    /\ lastCall' = Call("trainModel", trainRun'.returned)
    /\ UNCHANGED <<variant, tokenizer, tokOp, initialized, model, trainingData,
                   conversationContext, dmInitialized, generation, restVars>>

\* recordFeedback(userInput, botResponse, correctResponse): sets trainingData,
\* trainingMetrics, storedTokenizer, trainRun
recordFeedback(userInput, botResponse, correctResponse, fitOutcome) ==
    IF ~initialized
    THEN UNCHANGED <<trainingMetrics, storedTokenizer, trainRun, trainingData>>
    ELSE /\ trainingData' =
                WhenInitialized(addFeedback(trainingData, userInput, botResponse,
                                            correctResponse, now + 1), trainingData)
         /\ trainModel(<<Pair(userInput, correctResponse, NoDifficulty)>>, {}, fitOutcome,
                       "recordFeedback")

\* what that recordFeedback call returns: false before initialize and from its catch
\* (trainModel threw), true otherwise; what trainModel returned is not looked at
recordFeedbackReturned ==
    IF ~initialized \/ trainRun'.returned = "throws" THEN "false" ELSE "true"

\* recordFeedback(userInput, botResponse, correctResponse), called directly
RecordFeedback(userInput, botResponse, correctResponse, fitOutcome) ==
    /\ now' = now + 1
    /\ recordFeedback(userInput, botResponse, correctResponse, fitOutcome)
    /\ lastCall' = Call("recordFeedback", recordFeedbackReturned)
    /\ UNCHANGED <<variant, tokenizer, tokOp, initialized, model, conversationContext,
                   dmInitialized, generation, restVars>>

\* learnFromText(text, language, metadata)
LearnFromText(text, language, difficulty, luckySet, fitOutcome) ==
    LET trainingPairs == TrainingPairs(Sentences(text), difficulty)
    IN  /\ now' = now + 1
        /\ IF ~initialized
           THEN /\ lastCall' = Call("learnFromText", "false")
                /\ UNCHANGED <<trainingMetrics, storedTokenizer, trainRun, trainingData>>
           ELSE /\ trainingData' =
                       WhenInitialized(addTrainingText(trainingData, text, language,
                                                       difficulty, now + 1), trainingData)
                /\ IF Len(trainingPairs) > 0
                   THEN /\ trainModel(trainingPairs, luckySet, fitOutcome, "learnFromText")
                        /\ lastCall' = Call("learnFromText",
                                            IF trainRun'.returned = "throws"
                                            THEN "false" ELSE "true")
                   ELSE /\ lastCall' = Call("learnFromText", "false")
                        /\ UNCHANGED <<trainingMetrics, storedTokenizer, trainRun>>
        /\ UNCHANGED <<variant, tokenizer, tokOp, initialized, model, conversationContext,
                   dmInitialized, generation, restVars>>

\* importModel(importData): data without a model, or a null this.tokenizer, throws into
\* the catch before anything changes; createModel throwing is caught after the tokenizer
\* and the metrics were replaced
ImportModel(importData, outcome) ==
    /\ now' = now + 1
    /\ IF ~importData.model \/ tokenizer = NullTokenizer
       THEN /\ lastCall' = Call("importModel", "false")
            /\ UNCHANGED <<tokenizer, trainingMetrics, model, initialized, network, exported>>
       ELSE /\ tokenizer' = importData.tokenizer
            /\ trainingMetrics' = importData.trainingMetrics
            /\ exported' = [exported EXCEPT !.aliased = FALSE,
                                            !.trainingMetrics = BundleMetrics]
            /\ model' = (model \/ outcome = "created")
            /\ network' = createModel(outcome)
            /\ initialized' = (initialized \/ outcome # "createThrows")
            /\ lastCall' = Call("importModel",
                                IF outcome = "createThrows" THEN "false" ELSE "true")
    /\ UNCHANGED <<variant, tokOp, storedTokenizer, trainRun, trainingData,
                   conversationContext, dmInitialized, generation, beams, engine, app>>

\* generateResponse(userInput); `best` is what the beam search over model.predict ends
\* with: it threw, or bestBeam.sequence
BeamOutcomes == {<<>>} \cup {<<sequence>> : sequence \in DecodeSeqs}

Rethrown(userInput, pick) == "throws"

\* catch (error) { ...; return this.generateFallbackResponse(userInput); }
OnError(userInput, pick) == generateFallbackResponse(userInput, pick)

UndertrainedBelowOne(metrics) == metrics.totalExamples < 1

\* "If the model is not trained enough, use a fallback response"
Undertrained(metrics) == metrics.totalExamples < GenerationThreshold

\* the recurrent variant's generation loop `for (i = 0; i < maxLength - 1 && currentToken
\* !== word2idx.get('<END>'); ...)` starts with currentToken = word2idx.get('<START>'):
\* it is not entered when both lookups give the same value (both undefined in a
\* vocabulary without reserved tokens)
LoopSkipped ==
    /\ variant = "recurrent"
    /\ MapGetId(tokenizer.word2idx, START) = MapGetId(tokenizer.word2idx, END)

\* generateResponse(userInput) run on an initialized model or not: sets generation and
\* conversationContext. model.predict is called only after the threshold test. `best` is what the network's predictions lead to: <<>>
\* when predict or the tensor arithmetic throws, else <<the token sequence>>. In the
\* recurrent variant every entered iteration ends in `decoderInputTensor =
\* newDecoderInputTensor`, an assignment to a const binding, which throws a TypeError
\* that the catch turns into a fallback response.
generateResponse(userInput, best, pick) ==
    LET responseText == IF variant = "transformer" THEN decode(tokenizer, best[1]) ELSE ""
        run == [NoGeneration EXCEPT !.input = userInput, !.time = now + 1]
    IN  IF ~initialized \/ ~model
        THEN /\ generation' = [run EXCEPT !.path = "notInitialized",
                                          !.returned = StillInitializing]
             /\ UNCHANGED conversationContext
        ELSE IF Undertrained(trainingMetrics)
        THEN /\ generation' = [run EXCEPT !.path = "belowThreshold",
                                          !.returned = generateFallbackResponse(userInput, pick)]
             /\ UNCHANGED conversationContext
        ELSE IF ~LoopSkipped /\ best = <<>>
        THEN /\ generation' = [run EXCEPT !.path = "error", !.predicted = TRUE,
                                          !.returned = OnError(userInput, pick)]
             /\ UNCHANGED conversationContext
        ELSE IF variant = "recurrent" /\ ~LoopSkipped
        THEN /\ generation' = [run EXCEPT !.path = "constAssigned", !.predicted = TRUE,
                                          !.best = best,
                                          !.returned = OnError(userInput, pick)]
             /\ UNCHANGED conversationContext
        ELSE /\ conversationContext' =
                    updateConversationContext(conversationContext, userInput,
                                              responseText, now + 1)
             /\ generation' =
                    [run EXCEPT !.path = IF responseText # "" THEN "generated" ELSE "emptyText",
                                !.predicted = ~LoopSkipped,
                                !.best = IF LoopSkipped THEN <<>> ELSE best,
                                !.responseText = responseText,
                                !.returned = IF responseText # "" THEN responseText
                                             ELSE generateFallbackResponse(userInput, pick)]

\* generateResponse(userInput), called directly
GenerateResponse(userInput, best, pick) ==
    /\ now' = now + 1
    /\ generateResponse(userInput, best, pick)
    /\ lastCall' = Call("generateResponse", generation'.returned)
    /\ UNCHANGED <<variant, tokenizer, tokOp, initialized, model, trainingMetrics,
                   storedTokenizer, trainRun, trainingData, dmInitialized, restVars>>

\* dataManager.initialize(): loadFromStorage finds nothing stored, the per-language
\* text lists start empty
DataManagerInitialize ==
    /\ ~dmInitialized
    /\ now' = now + 1
    /\ dmInitialized' = TRUE
    /\ lastCall' = Call("dataManager.initialize", "true")
    /\ UNCHANGED <<tokVars, initialized, model, trainingMetrics, storedTokenizer,
                   trainRun, trainingData, conversationContext, generation, restVars>>

\* the random draws a trainModel call on `data` can make
Draws(data) ==
    IF variant = "transformer"
    THEN SUBSET DrawCandidates(data, currentLevelValue(trainingMetrics))
    ELSE {{}}

\* the clock stops the calls at MaxCalls
CanCall == now < MaxCalls

Next ==
    \/ /\ CanCall
       /\ DataManagerInitialize
    \/ /\ CanCall
       /\ \E outcome \in InitializeOutcomes : Initialize(outcome)
    \/ /\ CanCall
       /\ \E conversationData \in CallerLists :
              \E luckySet \in Draws(conversationData) :
                  \E fitOutcome \in OutcomesFor(conversationData, luckySet) :
                      TrainModel(conversationData, luckySet, fitOutcome)
    \/ /\ CanCall
       /\ \E fitOutcome \in FitOutcomes :
              RecordFeedback("Hello", "Hi", "Hi there", fitOutcome)
    \/ /\ CanCall
       /\ \E text \in LearnTexts, difficulty \in LearnDifficultiesOf(variant) :
              \E luckySet \in Draws(TrainingPairs(Sentences(text), difficulty)) :
                  \E fitOutcome \in FitOutcomes :
                      LearnFromText(text, "en", difficulty, luckySet, fitOutcome)
    \/ /\ CanCall
       /\ \E userInput \in UserInputs, best \in BeamOutcomes,
             pick \in 1..Len(defaultResponses) :
              GenerateResponse(userInput, best, pick)
    \/ /\ CanCall
       /\ \E importData \in ImportData, outcome \in InitializeOutcomes :
              ImportModel(importData, outcome)

Spec == Init /\ [][Next]_vars

\* ---------------------------------------------------------------------------
\* exportModel and the bundle it returns
\* ---------------------------------------------------------------------------

ExportFormats == {"json", "tfjs", "xml"}

\* exportModel(format): null unless initialized with a model; 'tfjs' returns a success
\* record and no bundle; 'json' returns {model, tokenizer, parameters, trainingMetrics,
\* exportDate}, where model is this.model.toJSON(), tokenizer is copied entry by entry and
\* trainingMetrics is the live this.trainingMetrics object; any other format throws
\* inside the try and the catch returns null
ExportModel(format) ==
    /\ now' = now + 1
    /\ IF ~initialized \/ ~model
       THEN /\ lastCall' = Call("exportModel", "null")
            /\ UNCHANGED exported
       ELSE IF format = "tfjs"
       THEN /\ lastCall' = Call("exportModel", "tfjs")
            /\ UNCHANGED exported
       ELSE IF format = "json"
       THEN /\ exported' = [made |-> TRUE,
                            tokenizer |-> TokenizerData(tokenizer),
                            trainingMetrics |-> trainingMetrics,
                            metricsAtExport |-> trainingMetrics,
                            aliased |-> TRUE,
                            weights |-> network.weights,
                            exportDate |-> now + 1]
            /\ lastCall' = Call("exportModel", "bundle")
       ELSE /\ lastCall' = Call("exportModel", "null")
            /\ UNCHANGED exported
    /\ UNCHANGED <<tokVars, initialized, model, trainingMetrics, storedTokenizer, trainRun,
                   trainingData, conversationContext, dmInitialized, generation, beams,
                   engine, network, app>>

\* the bundle exportModel('json') returned, as importModel reads it
ExportedBundle ==
    [model |-> TRUE, tokenizer |-> exported.tokenizer, trainingMetrics |-> BundleMetrics]

\* importModel(bundle) with the bundle the last exportModel('json') returned
ImportExported(outcome) ==
    /\ exported.made
    /\ ImportModel(ExportedBundle, outcome)

ExportNext ==
    \/ /\ CanCall
       /\ \E outcome \in InitializeOutcomes : Initialize(outcome)
    \/ /\ CanCall
       /\ \E conversationData \in CallerLists :
              \E luckySet \in Draws(conversationData) :
                  \E fitOutcome \in OutcomesFor(conversationData, luckySet) :
                      TrainModel(conversationData, luckySet, fitOutcome)
    \/ /\ CanCall
       /\ \E format \in ExportFormats : ExportModel(format)
    \/ /\ CanCall
       /\ \E outcome \in InitializeOutcomes : ImportExported(outcome)

SpecExport == Init /\ [][ExportNext]_vars

(***************************************************************************)
(* The curriculum on its own: one trainModel call on a model whose         *)
(* trainingMetrics stand at any level, over every training list            *)
(***************************************************************************)
CurriculumInit ==
    /\ variant = "transformer"
    /\ tokenizer = FreshTokenizer
    /\ tokOp = NoTokOp
    /\ initialized = TRUE
    /\ model = TRUE
    /\ \E i \in 1..Len(levels) :
           trainingMetrics = [InitialMetrics EXCEPT !.progressLevel = levels[i]]
    /\ storedTokenizer = <<>>
    /\ now = MaxCalls - 1
    /\ trainRun = NoTrainRun
    /\ lastCall = Call("initialize", "true")
    /\ trainingData = EmptyTrainingData
    /\ conversationContext = InitialContext
    /\ dmInitialized = TRUE
    /\ generation = NoGeneration
    /\ beams = NoBeams
    /\ engine = NoEngine
    /\ network = [weights |-> 1, vocabularySize |-> vocabularySize]
    /\ exported = NoBundle
    /\ app = NoApp

CurriculumNext ==
    /\ CanCall
    /\ \E conversationData \in TrainingLists :
           \E luckySet \in Draws(conversationData) :
               \E fitOutcome \in OutcomesFor(conversationData, luckySet) :
                   TrainModel(conversationData, luckySet, fitOutcome)

SpecCurriculum == CurriculumInit /\ [][CurriculumNext]_vars

(***************************************************************************)
(* The tokenizer on its own: fit, encode and decode called directly        *)
(***************************************************************************)
TokInit ==
    /\ variant \in Variants
    /\ tokenizer = FreshTokenizer
    /\ tokOp = NoTokOp
    /\ initialized = FALSE
    /\ model = FALSE
    /\ trainingMetrics = InitialMetrics
    /\ storedTokenizer = <<>>
    /\ now = 0
    /\ trainRun = NoTrainRun
    /\ lastCall = Call("none", "none")
    /\ trainingData = EmptyTrainingData
    /\ conversationContext = InitialContext
    /\ dmInitialized = FALSE
    /\ generation = NoGeneration
    /\ beams = NoBeams
    /\ engine = NoEngine
    /\ network = NoNetwork
    /\ exported = NoBundle
    /\ app = NoApp

TokNext ==
    \/ \E texts \in Corpora : Fit(texts)
    \/ \E text \in EncodeTexts, maxLength \in MaxLengths : Encode(text, maxLength)
    \/ DecodeEncoded
    \/ \E sequence \in DecodeSeqs : Decode(sequence)

SpecTok == TokInit /\ [][TokNext]_vars

(***************************************************************************)
(* Tokenizer claims                                                        *)
(***************************************************************************)
Fitted == tokenizer # FreshTokenizer
Ids(tok) == {tok.word2idx[k] : k \in DOMAIN tok.word2idx}

\* the words of a text of single-space-separated words
WordsOf(text) == split(toLowerCase(text))
SingleSpaced(text) ==
    /\ \A i \in 1..Len(WordsOf(text)) : Len(WordsOf(text)[i]) > 0
    /\ join(WordsOf(text)) = toLowerCase(text)
AllInVocabulary(text) ==
    \A i \in 1..Len(WordsOf(text)) : MapHas(tokenizer.word2idx, WordsOf(text)[i])

\* C1: after fit, for a text of single-space-separated in-vocabulary words that
\* fits into maxLength (words <= maxLength - 2), decode(encode(t, maxLength))
\* is t lower-cased, with the same words and word boundaries (sub-word variant).
C1_RoundTrip ==
    ( /\ variant = "transformer"
      /\ Fitted
      /\ tokOp.op = "decode" /\ tokOp.chained
      /\ SingleSpaced(tokOp.text)
      /\ AllInVocabulary(tokOp.text)
      /\ Len(WordsOf(tokOp.text)) <= tokOp.maxLength - 2 )
    => tokOp.str = toLowerCase(tokOp.text)

\* START, token ids, exactly one END, then only PAD, maxLength ids in all
WellFormed(seq, maxLength) ==
    /\ Len(seq) = maxLength
    /\ seq[1] = 2
    /\ \E e \in 2..Len(seq) :
          /\ seq[e] = 3
          /\ \A i \in 2..(e - 1) : seq[i] \notin {0, 2, 3}
          /\ \A i \in (e + 1)..Len(seq) : seq[i] = 0

\* C2: for a fitted tokenizer, every text and every maxLength >= 4, encode
\* returns exactly maxLength ids: START, token ids, one END, then only PAD,
\* also when out-of-vocabulary words are split into several tokens.
C2_EncodeShape ==
    (Fitted /\ tokOp.op = "encode") => WellFormed(tokOp.seq, tokOp.maxLength)

\* C3: after any fit calls PAD=0, UNKNOWN=1, START=2, END=3, the ids are
\* exactly 0..vocabSize-1 without gaps or duplicates, vocabSize is the number
\* of entries of word2idx, and idx2word is the exact inverse of word2idx.
C3_VocabularyInvariant ==
    Fitted =>
        /\ MapGetId(tokenizer.word2idx, PAD) = 0
        /\ MapGetId(tokenizer.word2idx, UNK) = 1
        /\ MapGetId(tokenizer.word2idx, START) = 2
        /\ MapGetId(tokenizer.word2idx, END) = 3
        /\ Ids(tokenizer) = 0..(tokenizer.vocabSize - 1)
        /\ \A a, b \in DOMAIN tokenizer.word2idx :
              tokenizer.word2idx[a] = tokenizer.word2idx[b] => a = b
        /\ tokenizer.vocabSize = Cardinality(DOMAIN tokenizer.word2idx)
        /\ DOMAIN tokenizer.idx2word = Ids(tokenizer)
        /\ \A a \in DOMAIN tokenizer.word2idx :
              tokenizer.idx2word[tokenizer.word2idx[a]] = a

\* a second fit, on a vocabulary that holds sub-words and whole words
C3_Witness ==
    /\ tokOp.op = "fit" /\ tokOp.priorSize > 4
    /\ variant = "transformer"
    /\ DOMAIN tokenizer.subwords # {}
    /\ \E w \in DOMAIN tokenizer.word2idx :
          w \notin {PAD, UNK, START, END} /\ ~MapHas(tokenizer.subwords, w)

\* C4: the vocabulary fit(c) leaves depends on c alone, not on the vocabulary
\* held before: it is the vocabulary fit(c) builds on a fresh tokenizer.
C4_FitDependsOnCorpusOnly ==
    tokOp.op = "fit"
    => tokenizer = IF variant = "transformer" THEN fit(FreshTokenizer, tokOp.texts)
                   ELSE fitBasic(FreshTokenizer, tokOp.texts)

\* a fit over a vocabulary of another size than the one it builds
C4_Witness ==
    /\ tokOp.op = "fit" /\ variant = "transformer"
    /\ tokOp.priorSize > 4
    /\ tokOp.priorSize # tokenizer.vocabSize

\* C5: encode and decode on an empty vocabulary fail with NotInitialized and
\* never return a sequence or a string.
C5_NotInitialized ==
    (tokOp.op \in {"encode", "decode"} /\ tokOp.priorSize = 0)
    => tokOp.outcome = "NotInitialized"

(***************************************************************************)
(* Training claims                                                         *)
(***************************************************************************)
\* the ordinal of a pair's difficulty tag; a pair without one counts as beginner
Ordinal(pair) ==
    IF pair.difficulty = NoDifficulty THEN 0
    ELSE CHOOSE k \in 0..(Len(levels) - 1) : levels[k + 1] = pair.difficulty
LevelOrdinal(level) == CHOOSE k \in 0..(Len(levels) - 1) : levels[k + 1] = level
Tagged(data) == \E i \in 1..Len(data) : data[i].difficulty # NoDifficulty
AllTagged(data) == \A i \in 1..Len(data) : data[i].difficulty # NoDifficulty
\* the last trainModel run got as far as choosing its examples
Selected == trainRun.outcome \notin {"none", "notInitialized"}
\* every random inclusion draw of the last run came out as "include"
AlwaysInclude ==
    trainRun.lucky = {i \in 1..Len(trainRun.data) :
                         Ordinal(trainRun.data[i]) - LevelOrdinal(trainRun.level) \in {1, 2}}
\* what the filter keeps of `data` at ordinal L when every draw includes
KeptAt(data, L) == {i \in 1..Len(data) : Ordinal(data[i]) <= L + 2}
\* what trainModel trains on at ordinal L when every draw includes
UsedAt(data, L) ==
    IF Cardinality(KeptAt(data, L)) < MinCurriculumSize THEN 1..Len(data) ELSE KeptAt(data, L)

\* C6: when some example carries a difficulty tag, the current level has ordinal L
\* and at least 10 examples survive the filter, the set trained on holds every
\* example of ordinal <= L, none of ordinal >= L+3, and those of ordinal L+1 or L+2
\* exactly when their random draw included them; untagged examples count as beginner.
C6_CurriculumFilter ==
    ( /\ variant = "transformer"
      /\ Selected
      /\ Tagged(trainRun.data)
      /\ Cardinality(trainRun.filtered) >= MinCurriculumSize )
    => \A i \in 1..Len(trainRun.data) :
          LET d == Ordinal(trainRun.data[i])
              L == LevelOrdinal(trainRun.level)
          IN  /\ d <= L => i \in trainRun.trained
              /\ d >= L + 3 => i \notin trainRun.trained
              /\ d \in {L + 1, L + 2} => (i \in trainRun.trained <=> i \in trainRun.lucky)
              /\ trainRun.data[i].difficulty = NoDifficulty => i \in trainRun.trained

\* a run whose filter kept at least 10 examples, took one by its draw and dropped
\* one that lies three or more levels up
C6_Witness ==
    /\ variant = "transformer"
    /\ Selected
    /\ Tagged(trainRun.data)
    /\ Cardinality(trainRun.filtered) >= MinCurriculumSize
    /\ \E i, j \in 1..Len(trainRun.data) :
          /\ Ordinal(trainRun.data[i]) - LevelOrdinal(trainRun.level) \in {1, 2}
          /\ i \in trainRun.trained
          /\ Ordinal(trainRun.data[j]) >= LevelOrdinal(trainRun.level) + 3
          /\ j \notin trainRun.trained

\* C7 as stated: for every list of tagged examples and every level L below expert,
\* with every draw including, the set trained on at L (after the fewer-than-10
\* fallback) is a subset of the set trained on at L+1.
C7_TrainedSetMonotone ==
    ( /\ variant = "transformer"
      /\ Selected
      /\ AllTagged(trainRun.data) /\ trainRun.data # <<>>
      /\ AlwaysInclude
      /\ trainRun.level # levels[Len(levels)] )
    => trainRun.trained \subseteq UsedAt(trainRun.data, LevelOrdinal(trainRun.level) + 1)

\* C7, amended: with every draw including, the set the filter keeps at L is a subset
\* of the set it keeps at L+1; the set trained on at L is a subset of the set trained
\* on at L+1 whenever the filter kept at least 10 examples at L.
C7_FilteredSetMonotone ==
    ( /\ variant = "transformer"
      /\ Selected
      /\ AllTagged(trainRun.data) /\ trainRun.data # <<>>
      /\ AlwaysInclude
      /\ trainRun.level # levels[Len(levels)] )
    => /\ trainRun.filtered \subseteq KeptAt(trainRun.data, LevelOrdinal(trainRun.level) + 1)
       /\ Cardinality(trainRun.filtered) >= MinCurriculumSize
              => trainRun.trained
                     \subseteq UsedAt(trainRun.data, LevelOrdinal(trainRun.level) + 1)

\* a run whose filter kept at least 10 examples and dropped one that the next
\* level keeps
C7_Witness ==
    /\ variant = "transformer"
    /\ Selected
    /\ AllTagged(trainRun.data)
    /\ AlwaysInclude
    /\ trainRun.level # levels[Len(levels)]
    /\ Cardinality(trainRun.filtered) >= MinCurriculumSize
    /\ trainRun.trained # UsedAt(trainRun.data, LevelOrdinal(trainRun.level) + 1)
    /\ trainRun.trained # 1..Len(trainRun.data)

\* the step is a call of `op`
Called(ops) == now' = now + 1 /\ lastCall'.op \in ops
\* the step ran trainModel (directly, or inside recordFeedback or learnFromText)
Trained == now' = now + 1 /\ trainRun'.time = now'
LevelNames == {levels[i] : i \in 1..Len(levels)}

\* C8: over trainModel, recordFeedback, learnFromText and generateResponse calls,
\* progressLevel is always one of the five levels, never decreases, rises by exactly
\* one level in a step iff that step's training run completed with final accuracy
\* above 0.8 below expert, and stays at expert once reached.
C8_ProgressLevel ==
    [][ ( /\ variant = "transformer"
          /\ Called({"trainModel", "recordFeedback", "learnFromText", "generateResponse"}) )
        => /\ trainingMetrics.progressLevel \in LevelNames
           /\ trainingMetrics'.progressLevel \in LevelNames
           /\ LET before == LevelOrdinal(trainingMetrics.progressLevel)
                  after == LevelOrdinal(trainingMetrics'.progressLevel)
              IN  /\ after >= before
                  /\ after <= before + 1
                  /\ after = before + 1
                         <=> ( /\ Trained
                               /\ trainRun'.outcome = "completed"
                               /\ trainRun'.history.accuracy > AccuracyThreshold
                               /\ trainingMetrics.progressLevel # levels[Len(levels)] )
                  /\ trainingMetrics.progressLevel = levels[Len(levels)]
                         => trainingMetrics'.progressLevel = levels[Len(levels)] ]_vars

\* a run at the last level that completed with accuracy above the threshold, after
\* which the level is still the last
C8_Witness ==
    /\ variant = "transformer"
    /\ trainRun.outcome = "completed"
    /\ trainRun.history.accuracy > AccuracyThreshold
    /\ trainRun.level = levels[Len(levels)]
    /\ trainingMetrics.progressLevel = levels[Len(levels)]
    /\ trainingMetrics.lastTrainingTime = trainRun.time

\* C9: a trainModel run that completes successfully adds exactly 1 to
\* totalTrainingSessions and exactly the number of examples trained on (the list
\* after filtering and fallback) to totalExamples; a run in which model.fit fails
\* leaves all six training metrics unchanged.
C9_MetricsFrame ==
    [][ Trained
        => /\ trainRun'.returned = "true"
               => /\ trainingMetrics'.totalTrainingSessions
                         = trainingMetrics.totalTrainingSessions + 1
                  /\ trainingMetrics'.totalExamples
                         = trainingMetrics.totalExamples + Cardinality(trainRun'.trained)
           /\ trainRun'.outcome = "fitThrows" => trainingMetrics' = trainingMetrics ]_vars

\* a completed run that trained on fewer examples than it was handed
C9_Witness ==
    /\ trainRun.outcome = "completed"
    /\ trainRun.returned = "true"
    /\ Cardinality(trainRun.trained) < Len(trainRun.data)
    /\ trainingMetrics.totalTrainingSessions = 1
    /\ trainingMetrics.totalExamples = Cardinality(trainRun.trained)

\* C10: a training run that ends with a NaN loss reports failure, does not save the
\* model or the tokenizer data, and does not update the training metrics.
C10_TrainingDiverged ==
    [][ ( /\ Trained
          /\ trainRun'.history.kind = "resolved"
          /\ trainRun'.history.loss = NaN )
        => /\ trainRun'.returned # "true"
           /\ ~trainRun'.saved
           /\ storedTokenizer' = storedTokenizer
           /\ trainingMetrics' = trainingMetrics ]_vars

(***************************************************************************)
(* The beam search inside generateResponse, one statement at a time        *)
(***************************************************************************)
\* this.parameters.maxSequenceLength, scaled down
maxSequenceLength == 4
beamWidth == 3

\* the numbers a score can be: beams start at 0, and every later score is a sum with
\* Math.log of a logit, where logits = log(probabilities) / temperature are never above 0
ScoreZero == "0"
NegInfinity == "-Infinity"
PosInfinity == "Infinity"
NotANumber == "NaN"

\* Math.log(x) for x <= 0: -Infinity at 0, NaN below it (and for NaN)
MathLog(value) == IF value = "0" THEN NegInfinity ELSE NotANumber

\* a + b on these numbers
Plus(a, b) ==
    IF a = NotANumber \/ b = NotANumber THEN NotANumber
    ELSE IF a = ScoreZero THEN b
    ELSE IF b = ScoreZero THEN a
    ELSE IF a = b THEN a
    ELSE NotANumber

\* a - b on these numbers
Negated(a) == IF a = NegInfinity THEN PosInfinity
              ELSE IF a = PosInfinity THEN NegInfinity ELSE a
Minus(a, b) == Plus(a, Negated(b))

\* (a, b) => b.score - a.score; sort treats a NaN result as +0
compareBeams(a, b) == Minus(b.score, a.score)
SortsBefore(a, b) == compareBeams(a, b) = NegInfinity

\* where an insertion sort puts x into a sorted list: before the first element it
\* sorts before
RECURSIVE InsertAt(_, _, _)
InsertAt(sorted, x, p) ==
    IF p > Len(sorted) \/ SortsBefore(x, sorted[p]) THEN p ELSE InsertAt(sorted, x, p + 1)

InsertSorted(sorted, x) ==
    SubSeq(sorted, 1, InsertAt(sorted, x, 1) - 1) \o <<x>>
        \o SubSeq(sorted, InsertAt(sorted, x, 1), Len(sorted))

\* candidates.sort(comparator): a stable sort
RECURSIVE SortFrom(_, _, _)
SortFrom(candidates, k, sorted) ==
    IF k > Len(candidates) THEN sorted
    ELSE CHOOSE result \in {SortFrom(candidates, k + 1, next) :
                                next \in {InsertSorted(sorted, candidates[k])}} : TRUE

sort(candidates) == SortFrom(candidates, 1, <<>>)

\* candidates.slice(0, n)
slice(candidates, n) ==
    SubSeq(candidates, 1, IF Len(candidates) < n THEN Len(candidates) ELSE n)

StartId == MapGetId(tokenizer.word2idx, START)
EndId == MapGetId(tokenizer.word2idx, END)

\* beam.sequence[beam.sequence.length - 1] === word2idx.get('<END>')
Ended(beam) == beam.sequence[Len(beam.sequence)] = EndId

\* beams.every(beam => beam.sequence[beam.sequence.length - 1] === END)
AllEnded(bs) == \A n \in 1..Len(bs) : Ended(bs[n])

LoopBoundWhole(maxLength) == maxLength

\* for (let i = 0; i < maxLength - 1; i++)
LoopBound(maxLength) == maxLength - 1

\* what logits.topk(beamWidth) can hold: three token ids, and their logits in
\* descending order (a probability of 1 gives the logit 0, of 0 gives -Infinity)
TopKIndices == {<<4, 3, 1>>, <<3, 4, 1>>, <<4, 1, 0>>}
TopKValues == {<<"negative", "negative", "negative">>, <<"0", NegInfinity, NegInfinity>>}

\* the beam search before generateResponse reaches it
BeamState(pc, i, bs, candidates, b, steps, input) ==
    [phase |-> pc, step |-> i, beams |-> bs, maxLength |-> maxSequenceLength,
     candidates |-> candidates, beam |-> b, steps |-> steps, input |-> input]

\* a trained transformer model (initialize, then importModel of an exported trained
\* model) at the point where generateResponse(userInput) has passed the threshold
\* test and set up `beams`
BeamInit ==
    /\ variant = "transformer"
    /\ tokenizer = fit(FreshTokenizer, <<"hi">>)
    /\ tokOp = NoTokOp
    /\ initialized = TRUE
    /\ model = TRUE
    /\ trainingMetrics = [InitialMetrics EXCEPT !.totalTrainingSessions = Len(levels),
                                                !.totalExamples = GenerationThreshold,
                                                !.lastTrainingTime = 2,
                                                !.accuracy = AccuracyThreshold + 1,
                                                !.progressLevel = levels[Len(levels)]]
    /\ storedTokenizer = <<>>
    /\ now = 2
    /\ trainRun = NoTrainRun
    /\ lastCall = Call("importModel", "true")
    /\ trainingData = EmptyTrainingData
    /\ conversationContext = InitialContext
    /\ dmInitialized = FALSE
    /\ generation = NoGeneration
    /\ \E userInput \in UserInputs :
           beams = BeamState("loop", 0, <<[sequence |-> <<StartId>>, score |-> ScoreZero]>>,
                             <<>>, 1, 0, userInput)
    /\ engine = NoEngine
    /\ network = [weights |-> 1, vocabularySize |-> vocabularySize]
    /\ exported = NoBundle
    /\ app = NoApp

beamFrame == <<tokVars, initialized, model, trainingMetrics, storedTokenizer, trainRun,
               trainingData, dmInitialized, engine, exportVars>>

\* the loop test: another round (const candidates = []), or on to the selection
BeamLoop ==
    /\ beams.phase = "loop"
    /\ beams' = IF beams.step < LoopBound(beams.maxLength)
                THEN [beams EXCEPT !.phase = "beam", !.candidates = <<>>, !.beam = 1]
                ELSE [beams EXCEPT !.phase = "select"]
    /\ UNCHANGED <<beamFrame, now, lastCall, conversationContext, generation>>

\* for (const beam of beams): a beam that already ended is carried over as it is
BeamCarry ==
    /\ beams.phase = "beam"
    /\ beams.beam <= Len(beams.beams)
    /\ Ended(beams.beams[beams.beam])
    /\ beams' = [beams EXCEPT !.candidates = Append(@, beams.beams[beams.beam]),
                              !.beam = @ + 1]
    /\ UNCHANGED <<beamFrame, now, lastCall, conversationContext, generation>>

\* the candidates of one beam: for (let k = 0; k < beamWidth; k++)
NewCandidates(beam, indices, values) ==
    [k \in 1..beamWidth |->
        [sequence |-> Append(beam.sequence, indices[k]),
         score |-> Plus(beam.score, MathLog(values[k]))]]

\* for (const beam of beams): model.predict, topk, and the new candidates
BeamExpand(indices, values) ==
    /\ beams.phase = "beam"
    /\ beams.beam <= Len(beams.beams)
    /\ ~Ended(beams.beams[beams.beam])
    /\ beams' = [beams EXCEPT
                    !.candidates = @ \o NewCandidates(beams.beams[beams.beam], indices, values),
                    !.beam = @ + 1]
    /\ UNCHANGED <<beamFrame, now, lastCall, conversationContext, generation>>

\* sort, keep the first beamWidth, break when every beam has ended
BeamPrune ==
    /\ beams.phase = "beam"
    /\ beams.beam > Len(beams.beams)
    /\ \E kept \in {slice(sort(beams.candidates), beamWidth)} :
           beams' = [beams EXCEPT
                        !.beams = kept,
                        !.candidates = <<>>,
                        !.steps = @ + 1,
                        !.step = IF AllEnded(kept) THEN @ ELSE @ + 1,
                        !.phase = IF AllEnded(kept) THEN "select" ELSE "loop"]
    /\ UNCHANGED <<beamFrame, now, lastCall, conversationContext, generation>>

\* const bestBeam = beams[0], and the rest of generateResponse
BeamSelect(pick) ==
    /\ beams.phase = "select"
    /\ beams' = [beams EXCEPT !.phase = "done"]
    /\ now' = now + 1
    /\ generateResponse(beams.input, <<beams.beams[1].sequence>>, pick)
    /\ lastCall' = Call("generateResponse", generation'.returned)
    /\ UNCHANGED beamFrame

\* model.predict (or a tensor operation around it) throws: on to the catch
BeamThrows(pick) ==
    /\ beams.phase = "beam"
    /\ beams.beam <= Len(beams.beams)
    /\ ~Ended(beams.beams[beams.beam])
    /\ beams' = [beams EXCEPT !.phase = "threw"]
    /\ now' = now + 1
    /\ generateResponse(beams.input, <<>>, pick)
    /\ lastCall' = Call("generateResponse", generation'.returned)
    /\ UNCHANGED beamFrame

BeamNext ==
    \/ BeamLoop
    \/ BeamCarry
    \/ \E indices \in TopKIndices, values \in TopKValues : BeamExpand(indices, values)
    \/ BeamPrune
    \/ \E pick \in 1..Len(defaultResponses) : BeamSelect(pick)
    \/ \E pick \in 1..Len(defaultResponses) : BeamThrows(pick)

\* the search is one async function: once called it runs on
SpecBeam == BeamInit /\ [][BeamNext]_vars /\ WF_vars(BeamNext)

(***************************************************************************)
(* NeuralConversationEngine: processInput, processCommands, submitFeedback *)
(***************************************************************************)
EngineMaxHistory == 50
MaxEngineCalls == 2

\* a message of context.history; `corrected` is set by submitFeedback only
Message(role, text, time) ==
    [role |-> role, text |-> text, timestamp |-> time, corrected |-> FALSE]

\* the command an input is, if any: input = userInput.toLowerCase().trim()
CommandName(userInput) ==
    LET input == trim(toLowerCase(userInput))
    IN  IF input \in {"/english", "speak english"} THEN "english"
        ELSE IF input \in {"/bengali", "speak bengali", "speak bangla"} THEN "bengali"
        ELSE IF input \in {"/conversation", "practice conversation"} THEN "conversation"
        ELSE IF input \in {"/vocabulary", "learn vocabulary"} THEN "vocabulary"
        ELSE IF input \in {"/grammar", "learn grammar"} THEN "grammar"
        ELSE IF input \in {"/reading", "practice reading"} THEN "reading"
        ELSE IF input \in {"/help", "help"} THEN "help"
        ELSE IF input \in {"/status", "status"} THEN "status"
        ELSE IF input \in {"/reset", "reset"} THEN "reset"
        ELSE "none"

\* processCommands(userInput): what the command does to the engine
processCommands(e, command) ==
    IF command = "english" THEN [e EXCEPT !.language = "en"]
    ELSE IF command = "bengali" THEN [e EXCEPT !.language = "bn"]
    ELSE IF command \in {"conversation", "vocabulary", "grammar", "reading"}
    THEN [e EXCEPT !.currentMode = command]
    ELSE IF command = "reset" THEN [e EXCEPT !.history = <<>>]
    ELSE e

\* if (this.context.history.length > 50) this.context.history.shift()
ShiftOnce(history) ==
    IF Len(history) > EngineMaxHistory THEN Tail(history) ELSE history

\* dataManager.addConversation(userInput, botResponse)
addConversation(data, userInput, botResponse, time) ==
    [data EXCEPT !.conversations = Append(@, [input |-> userInput, response |-> botResponse,
                                               timestamp |-> time, language |-> "en",
                                               difficulty |-> "beginner"])]

\* history.findIndex(msg => msg.role === 'bot' && msg.text === botResponse), 1-based,
\* 0 for -1
FindBotIndex(history, botResponse) ==
    IF \E n \in 1..Len(history) : history[n].role = "bot" /\ history[n].text = botResponse
    THEN CHOOSE n \in 1..Len(history) :
             /\ history[n].role = "bot" /\ history[n].text = botResponse
             /\ \A k \in 1..(n - 1) :
                    ~(history[k].role = "bot" /\ history[k].text = botResponse)
    ELSE 0

\* engine.initialize(languageModel, dataManager)
EngineInitialize(languageModel) ==
    /\ now' = now + 1
    /\ IF ~languageModel
       THEN /\ lastCall' = Call("engine.initialize", "false")
            /\ UNCHANGED engine
       ELSE /\ engine' = [engine EXCEPT !.initialized = TRUE, !.hasLanguageModel = TRUE,
                                        !.language = "en"]
            /\ lastCall' = Call("engine.initialize", "true")
    /\ UNCHANGED <<tokVars, initialized, model, trainingMetrics, storedTokenizer, trainRun,
                   trainingData, conversationContext, dmInitialized, generation, beams,
                   exportVars>>

\* processInput(userInput)
ProcessInput(userInput, best, pick) ==
    /\ now' = now + 1
    /\ IF ~engine.initialized \/ ~engine.hasLanguageModel
       THEN /\ lastCall' = Call("processInput",
                                [status |-> "initializing", text |-> StillInitializing])
            /\ UNCHANGED <<engine, generation, conversationContext, trainingData>>
       ELSE LET pushed == Append(engine.history, Message("user", userInput, now + 1))
                command == CommandName(userInput)
            IN  IF command # "none"
                THEN /\ engine' = processCommands([engine EXCEPT !.history = pushed], command)
                     /\ lastCall' = Call("processInput",
                                         [status |-> "command", text |-> command])
                     /\ UNCHANGED <<generation, conversationContext, trainingData>>
                ELSE /\ generateResponse(userInput, best, pick)
                     /\ engine' =
                            [engine EXCEPT !.history =
                                ShiftOnce(Append(pushed, Message("bot", generation'.returned,
                                                                 now + 1)))]
                     /\ trainingData' =
                            WhenInitialized(addConversation(trainingData, userInput,
                                                            generation'.returned, now + 1),
                                            trainingData)
                     /\ lastCall' = Call("processInput",
                                         [status |-> "success",
                                          text |-> generation'.returned])
    /\ UNCHANGED <<tokVars, initialized, model, trainingMetrics, storedTokenizer, trainRun,
                   dmInitialized, beams, exportVars>>

\* submitFeedback(userInput, botResponse, correctedResponse)
SubmitFeedback(userInput, botResponse, correctedResponse, fitOutcome) ==
    /\ now' = now + 1
    /\ IF ~engine.initialized
       THEN /\ lastCall' = Call("submitFeedback", "false")
            /\ UNCHANGED <<engine, trainingMetrics, storedTokenizer, trainRun, trainingData>>
       ELSE LET lastBotIndex == FindBotIndex(engine.history, botResponse)
            IN  /\ recordFeedback(userInput, botResponse, correctedResponse, fitOutcome)
                /\ engine' =
                       [engine EXCEPT
                           !.feedback = [botResponse |-> botResponse,
                                         correction |-> correctedResponse,
                                         recorded |-> recordFeedbackReturned],
                           !.history = IF lastBotIndex # 0
                                       THEN [@ EXCEPT ![lastBotIndex].text = correctedResponse,
                                                      ![lastBotIndex].corrected = TRUE]
                                       ELSE @]
                /\ lastCall' = Call("submitFeedback", "true")
    /\ UNCHANGED <<tokVars, initialized, model, conversationContext, dmInitialized,
                   generation, beams, exportVars>>

\* the answer an undertrained model gives to "Hello"
Greeting == generateFallbackResponse("Hello", 1)

\* the engine history after n messages: one command first when n is odd, then
\* "Hello" turns answered by the fallback greeting
EngineHistoryOf(n) ==
    [k \in 1..n |->
        IF n % 2 = 1 /\ k = 1 THEN Message("user", "/help", 0 - n)
        ELSE IF (n - k) % 2 = 1 THEN Message("user", "Hello", (k - n) - 1)
        ELSE Message("bot", Greeting, (k - n) - 2)]

\* the model's context after n generated answers
ContextHistoryOf(n) ==
    [k \in 1..n |-> [user |-> "Hello", bot |-> "hi", timestamp |-> (k - n) - 1]]

EngineHistoryLengths == {0, 4, EngineMaxHistory - 1, EngineMaxHistory}
ContextHistoryLengths == {0, MaxHistory - 1, MaxHistory}
EngineInputs == {"/help", " /Reset", "/writing"}
FeedbackTargets(history) ==
    {"Hi"} \cup {history[n].text : n \in {k \in 1..Len(history) : history[k].role = "bot"}}

\* the application after start-up (dataManager.initialize, languageModel.initialize)
\* and some use: an engine not yet initialized, or one that has handled inputs; a
\* model that is undertrained, or one that was imported trained and has answered
EngineInit ==
    /\ variant \in Variants
    /\ now = 0
    /\ tokenizer = TrainedBundle.tokenizer
    /\ tokOp = NoTokOp
    /\ initialized = TRUE
    /\ model = TRUE
    /\ \/ /\ trainingMetrics = InitialMetrics
          /\ conversationContext = InitialContext
       \/ /\ trainingMetrics = [TrainedBundle.trainingMetrics EXCEPT
                                   !.lastTrainingTime = 0 - MaxHistory]
          /\ \E n \in ContextHistoryLengths :
                 /\ variant = "recurrent" => n = 0
                 /\ conversationContext = [history |-> ContextHistoryOf(n),
                                           currentTopic |-> IF n = 0 THEN NullTopic
                                                            ELSE "greeting"]
    /\ storedTokenizer = <<>>
    /\ trainRun = NoTrainRun
    /\ lastCall = Call("initialize", "true")
    /\ trainingData = EmptyTrainingData
    /\ dmInitialized = TRUE
    /\ generation = NoGeneration
    /\ beams = NoBeams
    /\ network = [weights |-> 1, vocabularySize |-> vocabularySize]
    /\ exported = NoBundle
    /\ app = NoApp
    /\ \/ engine = NoEngine
       \/ \E n \in EngineHistoryLengths :
              engine = [NoEngine EXCEPT !.initialized = TRUE, !.hasLanguageModel = TRUE,
                                        !.history = EngineHistoryOf(n)]

CanCallEngine == now < MaxEngineCalls

EngineNext ==
    \/ /\ CanCallEngine
       /\ \E languageModel \in BOOLEAN : EngineInitialize(languageModel)
    \/ /\ CanCallEngine
       /\ \E userInput \in EngineInputs, best \in BeamOutcomes :
              ProcessInput(userInput, best, 1)
    \/ /\ CanCallEngine
       /\ \E botResponse \in FeedbackTargets(engine.history), fitOutcome \in FitOutcomes :
              SubmitFeedback("Hello", botResponse, "Hi there", fitOutcome)

SpecEngine == EngineInit /\ [][EngineNext]_vars

(***************************************************************************)
(* Persistence, generation, the conversation context                      *)
(***************************************************************************)
\* C11: trainModel returns true only if the optimisation and the persistence step
\* (saveModel -> dataManager.saveTokenizerData) both succeeded; when persistence fails
\* the run reports failure and the in-memory metrics are not left updated.
C11_AllOrNothing ==
    [][ Trained =>
          /\ (trainRun'.returned = "true" => trainRun'.saved)
          /\ (~trainRun'.saved => trainingMetrics' = trainingMetrics) ]_vars

\* a step that runs generateResponse
Generated == now' = now + 1 /\ generation'.time = now'

\* what generateFallbackResponse can return for an input
FallbackResponses(userInput) ==
    {generateFallbackResponse(userInput, pick) : pick \in 1..Len(defaultResponses)}

C13_NoErrorPropagates ==
    [][ (Generated /\ generation'.path = "error")
        => /\ generation'.returned # "throws"
           /\ generation'.returned \in FallbackResponses(generation'.input)
           /\ (lastCall'.op = "generateResponse"
                  => lastCall'.returned = generation'.returned) ]_vars

\* a generation on a trained model that raised inside the try block
C13_Witness ==
    /\ generation.path = "error"
    /\ lastCall.op = "generateResponse"
    /\ initialized /\ model
    /\ trainingMetrics.totalExamples >= GenerationThreshold
    /\ lastCall.returned \in FallbackResponses(generation.input)

AllBeams == {beams.beams[n] : n \in 1..Len(beams.beams)}
                \cup {beams.candidates[n] : n \in 1..Len(beams.candidates)}

\* C14: the beam search always comes to an end, makes at most maxSequenceLength - 1
\* expansion steps, holds at most beamWidth beams after each step, and no beam or
\* candidate is ever longer than maxSequenceLength tokens, whatever the model returns.
C14_BeamSearchBounded ==
    /\ [](/\ beams.steps <= maxSequenceLength - 1
          /\ (beams.phase \in {"loop", "select", "done"} => Len(beams.beams) <= beamWidth)
          /\ \A beam \in AllBeams : Len(beam.sequence) <= maxSequenceLength)
    /\ <>(beams.phase \in {"done", "threw"})

\* a search that ran every step and ended with three beams of full length
C14_Witness ==
    /\ beams.phase = "done"
    /\ beams.steps = maxSequenceLength - 1
    /\ Len(beams.beams) = beamWidth
    /\ \A n \in 1..beamWidth : Len(beams.beams[n].sequence) = maxSequenceLength

\* a > b on scores: nothing is above or below NaN
Greater(a, b) == Minus(a, b) = PosInfinity

\* C15: the sequence generateResponse decodes is a beam that ended with END, and no
\* ended beam of the final set has a higher score, also when the loop stopped at the
\* length bound.
C15_BestTerminalBeam ==
    beams.phase = "done"
    => /\ Ended(beams.beams[1])
       /\ \A n \in 1..Len(beams.beams) :
              Ended(beams.beams[n]) => ~Greater(beams.beams[n].score, beams.beams[1].score)

\* C16: every generateResponse call on an initialized model appends exactly one entry
\* to conversationContext.history, holding the input and the text the call returned,
\* on the fallback paths as on the model path.
C16_EveryResponseRecorded ==
    [][ (Generated /\ initialized /\ model
            /\ Len(conversationContext.history) < MaxHistory)
        => LET history == conversationContext'.history
           IN  /\ Len(history) = Len(conversationContext.history) + 1
               /\ SubSeq(history, 1, Len(history) - 1) = conversationContext.history
               /\ history[Len(history)].user = generation'.input
               /\ history[Len(history)].bot = generation'.returned ]_vars

\* the last n elements of a sequence
LastN(seq, n) == IF Len(seq) > n THEN SubSeq(seq, Len(seq) - n + 1, Len(seq)) ELSE seq

\* C17: the model's conversationContext.history never holds more than 50 entries, and
\* each updateConversationContext call leaves the most recent entries in insertion
\* order: the old ones followed by the new one, less the oldest on overflow.
C17_BoundedContext ==
    [][ /\ Len(conversationContext'.history) <= MaxHistory
        /\ (Generated /\ generation'.path \in {"generated", "emptyText"})
           => conversationContext'.history =
                  LastN(Append(conversationContext.history,
                               [user |-> generation'.input,
                                bot |-> generation'.responseText,
                                timestamp |-> now']),
                        MaxHistory) ]_vars

\* a full context that took one more entry and lost its oldest
C17_Witness ==
    /\ Len(conversationContext.history) = MaxHistory
    /\ conversationContext.history[MaxHistory].timestamp = now
    /\ conversationContext.history[1].timestamp = 1 - MaxHistory
    /\ generation.path = "generated"

\* C18: whatever inputs processInput has handled, commands or not, the engine's
\* context.history holds at most 50 messages.
C18_EngineHistoryBounded == Len(engine.history) <= EngineMaxHistory

\* a step that runs submitFeedback on an initialized engine
Submitted == now' = now + 1 /\ lastCall'.op = "submitFeedback" /\ engine.initialized

\* the bot messages of a history with a given text
BotMatches(history, text) ==
    {n \in 1..Len(history) : history[n].role = "bot" /\ history[n].text = text}

\* C19: submitFeedback rewrites the most recent bot message whose text is botResponse
\* to the correction, marks it corrected, and leaves every other message as it was.
C19_MostRecentRewritten ==
    [][ (Submitted /\ BotMatches(engine.history, engine'.feedback.botResponse) # {})
        => LET matches == BotMatches(engine.history, engine'.feedback.botResponse)
               last == CHOOSE n \in matches : \A k \in matches : k <= n
           IN  /\ Len(engine'.history) = Len(engine.history)
               /\ engine'.history[last].text = engine'.feedback.correction
               /\ engine'.history[last].corrected
               /\ \A n \in 1..Len(engine.history) :
                      n # last => engine'.history[n] = engine.history[n] ]_vars

\* C20: when the trainModel call made by recordFeedback fails (returns false or
\* throws), recordFeedback returns false and so does submitFeedback; they return true
\* only when the single-pair training completed.
C20_FailureSurfaced ==
    [][ Submitted
        => /\ (trainRun'.returned \in {"false", "throws"}
                  => /\ engine'.feedback.recorded = "false"
                     /\ lastCall'.returned = "false")
           /\ (lastCall'.returned = "true" => trainRun'.returned = "true")
           /\ (engine'.feedback.recorded = "true" => trainRun'.returned = "true") ]_vars


(***************************************************************************)
(* NeuralDataManager: the add operations and getConversationPairs         *)
(***************************************************************************)
RECURSIVE ConversationPairs(_)
ConversationPairs(conversations) ==
    IF conversations = <<>> THEN <<>>
    ELSE <<[input |-> Head(conversations).input, output |-> Head(conversations).response,
            timestamp |-> Head(conversations).timestamp, isFeedback |-> FALSE]>>
             \o ConversationPairs(Tail(conversations))

RECURSIVE FeedbackPairs(_)
FeedbackPairs(feedback) ==
    IF feedback = <<>> THEN <<>>
    ELSE <<[input |-> Head(feedback).input, output |-> Head(feedback).correctResponse,
            timestamp |-> Head(feedback).timestamp, isFeedback |-> TRUE]>>
             \o FeedbackPairs(Tail(feedback))

\* each sentence of a text with the next one
RECURSIVE TextPairs(_)
TextPairs(texts) ==
    IF texts = <<>> THEN <<>>
    ELSE LET sentences == Sentences(Head(texts).content)
         IN  [i \in 1..(Len(sentences) - 1) |->
                 [input |-> trim(sentences[i]), output |-> trim(sentences[i + 1]),
                  timestamp |-> Head(texts).timestamp, isFeedback |-> FALSE]]
                 \o TextPairs(Tail(texts))

\* getConversationPairs() without a language filter: the conversations, then the
\* feedback, then the texts language by language (for (const lang in texts))
getConversationPairs(data) ==
    ConversationPairs(data.conversations)
        \o FeedbackPairs(data.feedback)
        \o TextPairs(TextsByLanguage(data.texts, supportedLanguages))

StoreLanguages == {"en", "bn"}

AddConversation(userInput, botResponse) ==
    /\ now' = now + 1
    /\ trainingData' = WhenInitialized(addConversation(trainingData, userInput, botResponse,
                                                       now + 1), trainingData)
    /\ lastCall' = Call("addConversation", IF dmInitialized THEN "true" ELSE "false")
    /\ UNCHANGED <<tokVars, initialized, model, trainingMetrics, storedTokenizer, trainRun,
                   conversationContext, dmInitialized, generation, restVars>>

AddTrainingText(text, language) ==
    /\ now' = now + 1
    /\ trainingData' = WhenInitialized(addTrainingText(trainingData, text, language,
                                                       NoDifficulty, now + 1), trainingData)
    /\ lastCall' = Call("addTrainingText",
                        IF dmInitialized /\ trainingData' # trainingData
                        THEN "true" ELSE "false")
    /\ UNCHANGED <<tokVars, initialized, model, trainingMetrics, storedTokenizer, trainRun,
                   conversationContext, dmInitialized, generation, restVars>>

AddFeedback(userInput, botResponse, correctResponse) ==
    /\ now' = now + 1
    /\ trainingData' = WhenInitialized(addFeedback(trainingData, userInput, botResponse,
                                                   correctResponse, now + 1), trainingData)
    /\ lastCall' = Call("addFeedback", IF dmInitialized THEN "true" ELSE "false")
    /\ UNCHANGED <<tokVars, initialized, model, trainingMetrics, storedTokenizer, trainRun,
                   conversationContext, dmInitialized, generation, restVars>>

StoreNext ==
    \/ /\ CanCall
       /\ DataManagerInitialize
    \/ /\ CanCall
       /\ AddConversation("Hello", "Hi")
    \/ /\ CanCall
       /\ \E text \in LearnTexts \cup {" "}, language \in StoreLanguages :
              AddTrainingText(text, language)
    \/ /\ CanCall
       /\ AddFeedback("Hello", "Hi", "Hi there")

SpecStore == Init /\ [][StoreNext]_vars

(***************************************************************************)
(* NeuralAppIntegrator: the event handlers and the calls they leave in     *)
(* flight. A handler runs to its first await; what follows the await is a  *)
(* later step. app.pending holds the awaited calls, each at the stage of   *)
(* the conversation engine's work it has reached.                          *)
(***************************************************************************)
\* events handled on one page, capped
MaxAppEvents == 4

CanHandle == app.initialized /\ app.events < MaxAppEvents

Handled(a, handler, effect) ==
    [a EXCEPT !.events = @ + 1, !.last = [handler |-> handler, effect |-> effect]]

AppFrame ==
    UNCHANGED <<tokVars, initialized, model, trainingMetrics, storedTokenizer, now,
                trainRun, lastCall, trainingData, conversationContext, dmInitialized,
                generation, beams, engine, network, exported>>

\* initialize(): components, UI, event listeners, speech; then the welcome message
AppInitialize ==
    /\ ~app.initialized
    /\ app' = [app EXCEPT !.initialized = TRUE, !.messages = @ + 1]
    /\ AppFrame

NeverProcessing(a) == FALSE

\* if (this.state.isProcessing) return;
Processing(a) == a.isProcessing

InputSources == {"click", "enter", "speech"}
InputTexts == {"Hello", "/help", " "}

\* the first stage of processInput(userInput): a command is answered by processCommands,
\* anything else goes to languageModel.generateResponse
FirstStage(userInput) ==
    IF CommandName(userInput) # "none" THEN "command" ELSE "generateResponse"

\* handleUserInput(), called by the send button's click listener, the Enter keypress
\* listener and recognition.onresult; showLoading(true) disables the send button
HandleUserInput(source, text) ==
    /\ CanHandle
    /\ source = "click" => ~app.sendDisabled
    /\ app' = IF Processing(app) \/ trim(text) = ""
              THEN Handled(app, "handleUserInput", "returned")
              ELSE [Handled(app, "handleUserInput", "awaiting") EXCEPT
                       !.messages = @ + 1,
                       !.sendDisabled = TRUE,
                       !.isProcessing = TRUE,
                       !.pending = Append(@, [handler |-> "handleUserInput",
                                              stage |-> FirstStage(trim(text))])]
    /\ AppFrame

\* the "incorrect" feedback button: showCorrectionInput()
IncorrectClick ==
    /\ CanHandle
    /\ app.feedbackUI = "buttons"
    /\ app' = [Handled(app, "incorrectButton", "returned") EXCEPT !.feedbackUI = "correction"]
    /\ AppFrame

\* the "correct" feedback button: hideFeedbackUI()
CorrectClick ==
    /\ CanHandle
    /\ app.feedbackUI # "hidden"
    /\ app' = [Handled(app, "correctButton", "returned") EXCEPT !.feedbackUI = "hidden"]
    /\ AppFrame

CorrectionTexts == {"Hi there", ""}

\* submitCorrection(), called by the submit-correction button's click listener:
\* conversationEngine.submitFeedback -> languageModel.recordFeedback, which awaits
\* dataManager.addFeedback and then trainModel
SubmitCorrection(correctionText) ==
    /\ CanHandle
    /\ app.feedbackUI = "correction"
    /\ app' = IF trim(correctionText) = ""
              THEN Handled(app, "submitCorrection", "returned")
              ELSE [Handled(app, "submitCorrection", "awaiting") EXCEPT
                       !.pending = Append(@, [handler |-> "submitCorrection",
                                              stage |-> "addFeedback"])]
    /\ AppFrame

RemoveAt(list, k) == SubSeq(list, 1, k - 1) \o SubSeq(list, k + 1, Len(list))

\* an awaited call inside the conversation engine settles and the next one starts:
\* processInput stores the exchange after generateResponse (dataManager.addConversation);
\* recordFeedback trains after addFeedback
EngineAdvances(k) ==
    /\ k \in 1..Len(app.pending)
    /\ app.pending[k].stage \in {"generateResponse", "addFeedback"}
    /\ app' = [app EXCEPT !.pending[k].stage =
                   IF @ = "generateResponse" THEN "addConversation" ELSE "trainModel"]
    /\ AppFrame

SettleOutcomes == {"resolved", "threw"}

\* the awaited processInput settles: the bot message (or the apology of the catch), then
\* the finally block
ProcessInputSettles(k, outcome) ==
    /\ k \in 1..Len(app.pending)
    /\ app.pending[k].handler = "handleUserInput"
    /\ app.pending[k].stage \in {"command", "addConversation"}
    /\ app' = [app EXCEPT
                  !.pending = RemoveAt(@, k),
                  !.messages = @ + 1,
                  !.lastBotResponse = IF outcome = "resolved" THEN "Hi" ELSE @,
                  !.feedbackUI = IF outcome = "resolved" /\ @ = "hidden" THEN "buttons" ELSE @,
                  !.sendDisabled = FALSE,
                  !.isProcessing = FALSE,
                  !.last = [handler |-> "handleUserInput", effect |-> outcome]]
    /\ AppFrame

\* the awaited submitFeedback settles: hideFeedbackUI() unless it threw
SubmitFeedbackSettles(k, outcome) ==
    /\ k \in 1..Len(app.pending)
    /\ app.pending[k].handler = "submitCorrection"
    /\ app.pending[k].stage = "trainModel"
    /\ app' = [app EXCEPT
                  !.pending = RemoveAt(@, k),
                  !.feedbackUI = IF outcome = "resolved" THEN "hidden" ELSE @,
                  !.last = [handler |-> "submitCorrection", effect |-> outcome]]
    /\ AppFrame

AppNext ==
    \/ AppInitialize
    \/ \E source \in InputSources, text \in InputTexts : HandleUserInput(source, text)
    \/ IncorrectClick
    \/ CorrectClick
    \/ \E correctionText \in CorrectionTexts : SubmitCorrection(correctionText)
    \/ \E k \in 1..Len(app.pending) : EngineAdvances(k)
    \/ \E k \in 1..Len(app.pending), outcome \in SettleOutcomes :
           ProcessInputSettles(k, outcome)
    \/ \E k \in 1..Len(app.pending), outcome \in SettleOutcomes :
           SubmitFeedbackSettles(k, outcome)

SpecApp == Init /\ [][AppNext]_vars

\* ---------------------------------------------------------------------------
\* Export, import and the network's vocabulary dimension
\* ---------------------------------------------------------------------------

\* a step in which importModel(bundle) returned true for the exported bundle
ImportedBundle ==
    /\ exported.made
    /\ now' = now + 1
    /\ lastCall' = Call("importModel", "true")

\* C21: after exportModel('json') followed by importModel(bundle) the model has the
\* tokenizer vocabulary, the training metrics and the network weights it had when the
\* bundle was exported
C21_RoundTrip ==
    [][ImportedBundle =>
          /\ tokenizer' = exported.tokenizer
          /\ trainingMetrics' = exported.metricsAtExport
          /\ network'.weights = exported.weights]_vars

\* C28: the bundle exportModel('json') returned is a snapshot: a later successful
\* trainModel on the exporting model leaves the trainingMetrics held in the bundle as
\* they were
C28_BundleIsSnapshot ==
    [][(Trained /\ trainRun'.returned = "true" /\ exported.made)
          => BundleMetrics' = BundleMetrics]_vars

\* C27: whenever a network has been built (by initialize, loadModel or importModel), the
\* vocabulary dimension it was built with equals tokenizer.vocabSize
C27_VocabularyDimension ==
    network # NoNetwork => network.vocabularySize = tokenizer.vocabSize

\* the tokenizer has a fitted or restored vocabulary
FittedVocabulary ==
    /\ \A token \in {PAD, UNK, START, END} : MapHas(tokenizer.word2idx, token)
    /\ tokenizer.vocabSize >= Cardinality({PAD, UNK, START, END})

\* C26: whenever trainModel encodes its pairs (it got past the initialization check and
\* has at least one pair to encode) the tokenizer has a fitted or restored vocabulary:
\* the four reserved tokens are in it and vocabSize >= 4
C26_FittedWhenEncoding ==
    [][(Trained /\ trainRun'.outcome # "notInitialized" /\ trainRun'.trained # {})
          => FittedVocabulary]_vars

\* C25: the score of every candidate is a finite, non-positive number (the cumulative
\* sum of the temperature-scaled log-probabilities of its tokens), so that the
\* candidates are totally ordered by score when the top beamWidth are kept
C25_FiniteScores ==
    \A n \in 1..Len(beams.candidates) :
        beams.candidates[n].score \notin {NegInfinity, PosInfinity, NotANumber}

\* a generateResponse step on an initialized, sufficiently trained model whose
\* predictions raised no error and gave a token sequence that decodes to a non-empty text
ModelAnswered ==
    /\ Generated
    /\ initialized /\ model
    /\ trainingMetrics.totalExamples >= GenerationThreshold
    /\ generation'.best # <<>>
    /\ IF variant = "transformer" THEN decode(tokenizer, generation'.best[1]) # ""
       ELSE decodeBasic(tokenizer, generation'.best[1]) # ""

\* C30: in both variants, once totalExamples >= 100 and the predictions raise no error
\* and yield a non-empty token sequence, generateResponse returns the text assembled
\* from the generated tokens, not a fallback response
C30_ModelTextReturned ==
    [][ModelAnswered
          => /\ generation'.path = "generated"
             /\ generation'.returned =
                    IF variant = "transformer" THEN decode(tokenizer, generation'.best[1])
                    ELSE decodeBasic(tokenizer, generation'.best[1])]_vars

\* the commands getHelpText lists
HelpCommands ==
    {"/english", "/bengali", "/conversation", "/vocabulary", "/grammar", "/reading",
     "/writing", "/help", "/status", "/reset"}

\* C23: every command listed in the help text is handled by processInput as a command:
\* the result's status is 'command', and the input is neither passed to
\* languageModel.generateResponse nor stored as a training conversation
C23_HelpCommandsHandled ==
    [][\A command \in HelpCommands :
          (/\ engine.initialized /\ engine.hasLanguageModel
           /\ \E best \in BeamOutcomes : ProcessInput(command, best, 1))
          => /\ lastCall'.returned.status = "command"
             /\ generation' = generation
             /\ trainingData' = trainingData]_vars

\* C24: the conversation store preserves insertion order: after any sequence of
\* addConversation, addFeedback and addTrainingText calls, getConversationPairs returns
\* the pairs in the order in which the underlying entries were inserted
C24_InsertionOrder ==
    LET pairs == getConversationPairs(trainingData)
    IN  \A i, j \in 1..Len(pairs) : i < j => pairs[i].timestamp <= pairs[j].timestamp

(***************************************************************************)
(* The application integrator's handlers                                   *)
(***************************************************************************)
\* the calls on the language model that are in flight
ModelCallsInFlight ==
    {k \in 1..Len(app.pending) : app.pending[k].stage \in {"generateResponse", "trainModel"}}

\* C22: under every interleaving of the integrator's event handlers at most one
\* trainModel or generateResponse call is in flight on the language model
C22_OneModelCallInFlight == Cardinality(ModelCallsInFlight) <= 1

\* a step in which handleUserInput was invoked
HandleInvoked == app'.events = app.events + 1 /\ app'.last.handler = "handleUserInput"

HandlesPending(a) ==
    {k \in 1..Len(a.pending) : a.pending[k].handler = "handleUserInput"}

\* C29: handleUserInput is non-reentrant: invoked while an earlier call is awaiting
\* processInput it returns without calling processInput and without adding a chat
\* message; and isProcessing is false again once the awaited call has settled, whether
\* it resolved or threw
C29_NonReentrant ==
    [][/\ (HandleInvoked /\ HandlesPending(app) # {})
           => /\ app'.pending = app.pending
              /\ app'.messages = app.messages
       /\ Cardinality(HandlesPending(app')) <= 1
       /\ app'.isProcessing = (HandlesPending(app') # {})]_vars

C29_Witness ==
    /\ app.last = [handler |-> "handleUserInput", effect |-> "returned"]
    /\ HandlesPending(app) # {}
    /\ app.isProcessing
    /\ app.events >= 2

====
